---------------------------- MODULE Spec2Model ----------------------------
(***************************************************************************)
(* A model of the GitHubAdvisor repository finder: the LangGraph workflow  *)
(* of GitHubRepositoryAgent (parse_query, the router, search, analyze,     *)
(* rank, generate_diagram, generate_response), the RepositoryAnalyzer that *)
(* enriches one candidate from five sub-fetches, and the scoring function. *)
(*                                                                         *)
(* Conventions.                                                            *)
(*  - A Python dict is a function whose domain is a set of strings.        *)
(*  - None is the empty tuple <<>>; a present optional value v is <<v>>.   *)
(*  - A text (str) is a tuple of one-character strings, so that lower()    *)
(*    and the `in` substring test are computed, not assumed.               *)
(*  - A real number that is a quotient (an average, a rate) is the record  *)
(*    [num, den]; the composite score is kept in tenths of a point, since  *)
(*    its only non-integer part is stars / 10.                             *)
(*  - A timestamp is a whole number of days before "now".                  *)
(***************************************************************************)
EXTENDS Integers, Sequences, FiniteSets, TLC

VARIABLES
    pc,                     \* the node of the workflow about to run, "END", or "raised"
    user_query,             \* state["user_query"]
    search_terms,           \* state["search_terms"]
    language,               \* state["language"]
    requirements,           \* state["requirements"]
    repositories,           \* state["repositories"]
    analyzed_repositories,  \* state["analyzed_repositories"]
    ranked_repositories,    \* state["ranked_repositories"]
    response,               \* state["response"]
    diagram_path,           \* state["diagram_path"] (None while the key is absent)
    stored_repositories,    \* the caller's list, as passed to find_repositories
    batch_start,            \* _analyze_repositories: the loop variable i
    batch_results,          \* _analyze_repositories: the gather's result slots
    analyzed_acc,           \* _analyze_repositories: the local analyzed_repos
    visited,                \* history: the nodes entered, in order
    calls                   \* history: the external calls made and how each ended

vars == << pc, user_query, search_terms, language, requirements, repositories,
           analyzed_repositories, ranked_repositories, response, diagram_path,
           stored_repositories, batch_start, batch_results, analyzed_acc,
           visited, calls >>

-----------------------------------------------------------------------------
(* Python values *)

None == << >>

Some(v) == << v >>

Min(a, b) == IF a <= b THEN a ELSE b

\* d.get(k, default)
Get(d, k, default) == IF k \in DOMAIN d THEN d[k] ELSE default

\* {**a, **b}: the keys of both, b's value where both have the key
Merge(a, b) ==
    [k \in (DOMAIN a) \cup (DOMAIN b) |-> IF k \in DOMAIN b THEN b[k] ELSE a[k]]

\* Take changed to keep the whole list
TakeAll(s, n) == s

\* s[:n]
Take(s, n) == SubSeq(s, 1, Min(n, Len(s)))

\* s[-n:]
LastN(s, n) == SubSeq(s, IF Len(s) > n THEN Len(s) - n + 1 ELSE 1, Len(s))

RECURSIVE SumOf(_)
SumOf(s) == IF s = << >> THEN 0 ELSE Head(s) + SumOf(Tail(s))

\* lst.extend(more), as a value
RECURSIVE Concat(_)
Concat(ss) == IF ss = << >> THEN << >> ELSE Head(ss) \o Concat(Tail(ss))

-----------------------------------------------------------------------------
(* Texts *)

UpperToLower ==
    [c \in {"A", "D", "F", "S", "T", "V", "W"} |->
        CASE c = "A" -> "a" [] c = "D" -> "d" [] c = "F" -> "f" [] c = "S" -> "s"
          [] c = "T" -> "t" [] c = "V" -> "v" [] c = "W" -> "w"]

\* str.lower()
Lower(s) ==
    [i \in 1..Len(s) |-> IF s[i] \in DOMAIN UpperToLower THEN UpperToLower[s[i]] ELSE s[i]]

\* sub in s
Contains(sub, s) ==
    \E i \in 1..(Len(s) - Len(sub) + 1) : SubSeq(s, i, i + Len(sub) - 1) = sub

-----------------------------------------------------------------------------
(* The router and the diagram index (github_agent.py) *)

K_diagram == << "d", "i", "a", "g", "r", "a", "m" >>
K_draw == << "d", "r", "a", "w" >>
K_show == << "s", "h", "o", "w" >>
K_visualize == << "v", "i", "s", "u", "a", "l", "i", "z", "e" >>

diagram_keywords == << K_diagram, K_draw, K_show, K_visualize >>

\* HasDiagramKeyword changed to scan the text as typed, not lowercased
HasDiagramKeywordCaseSensitive(query) ==
    \E i \in 1..Len(diagram_keywords) : Contains(diagram_keywords[i], query)

\* any(keyword in query for keyword in diagram_keywords), query lowercased
HasDiagramKeyword(query) ==
    \E i \in 1..Len(diagram_keywords) : Contains(diagram_keywords[i], Lower(query))

\* diagram_keywords of _generate_response, a list of its own
response_diagram_keywords == << K_diagram, K_draw, K_show, K_visualize >>

\* ResponseHasDiagramKeyword changed to scan for a list without "show"
ResponseHasDiagramKeywordWithoutShow(query) ==
    \E k \in {K_diagram, K_draw, K_visualize} : Contains(k, Lower(query))

\* any(keyword in query for keyword in diagram_keywords) of _generate_response
ResponseHasDiagramKeyword(query) ==
    \E i \in 1..Len(response_diagram_keywords) :
        Contains(response_diagram_keywords[i], Lower(query))

RouteRequest(query) == IF HasDiagramKeyword(query) THEN "diagram" ELSE "search"

\* RepoIndex changed to select the first repository whatever the text
RepoIndexAlwaysFirst(query) == 0

\* RepoIndex changed to look for the third before the second
RepoIndexThirdFirst(query) ==
    LET q == Lower(query)
    IN  IF \/ Contains(<< "t", "h", "i", "r", "d" >>, q)
           \/ Contains(<< "3", "r", "d" >>, q)
           \/ Contains(<< "3" >>, q)
        THEN 2
        ELSE IF \/ Contains(<< "s", "e", "c", "o", "n", "d" >>, q)
                \/ Contains(<< "2", "n", "d" >>, q)
                \/ Contains(<< "2" >>, q)
             THEN 1
             ELSE 0

\* the index _generate_diagram reads from the query
RepoIndex(query) ==
    LET q == Lower(query)
    IN  IF \/ Contains(<< "s", "e", "c", "o", "n", "d" >>, q)
           \/ Contains(<< "2", "n", "d" >>, q)
           \/ Contains(<< "2" >>, q)
        THEN 1
        ELSE IF \/ Contains(<< "t", "h", "i", "r", "d" >>, q)
                \/ Contains(<< "3", "r", "d" >>, q)
                \/ Contains(<< "3" >>, q)
             THEN 2
             ELSE 0

-----------------------------------------------------------------------------
(* The scoring function and the ranking (github_agent.py) *)

\* The recency bucket, in points.
RecencyPoints(last_updated) ==
    IF last_updated <= 7 THEN 300
    ELSE IF last_updated <= 30 THEN 200
    ELSE IF last_updated <= 90 THEN 100
    ELSE 0

\* MergeTimePoints changed to compare with < where the code compares with <=
MergeTimePointsStrict(avg_merge_time) ==
    IF avg_merge_time = None THEN 0
    ELSE LET a == avg_merge_time[1]
         IN  IF a.num < 1 * a.den THEN 200
             ELSE IF a.num < 3 * a.den THEN 150
             ELSE IF a.num < 7 * a.den THEN 100
             ELSE IF a.num < 14 * a.den THEN 50
             ELSE 0

\* The PR merge time bucket, in points; avg is None or Some([num, den]) days.
MergeTimePoints(avg_merge_time) ==
    IF avg_merge_time = None THEN 0
    ELSE LET a == avg_merge_time[1]
         IN  IF a.num <= 1 * a.den THEN 200
             ELSE IF a.num <= 3 * a.den THEN 150
             ELSE IF a.num <= 7 * a.den THEN 100
             ELSE IF a.num <= 14 * a.den THEN 50
             ELSE 0

\* IssueRatioPoints changed to divide the stars by the open issues
IssueRatioPointsSwapped(open_issues, stars) ==
    IF open_issues > 0
    THEN IF 10 * stars < open_issues THEN 100
         ELSE IF 5 * stars < open_issues THEN 50
         ELSE 0
    ELSE 0

\* The issues to stars bucket, in points: open_issues / stars < 0.1 is
\* 10 * open_issues < stars, and < 0.2 is 5 * open_issues < stars.
IssueRatioPoints(open_issues, stars) ==
    IF stars > 0
    THEN IF 10 * open_issues < stars THEN 100
         ELSE IF 5 * open_issues < stars THEN 50
         ELSE 0
    ELSE 0

\* CalculateRepositoryScore changed to leave the stars uncapped
CalculateRepositoryScoreUncapped(repo) ==
    LET stars == Get(repo, "stars", 0)
    IN  stars
        + 10 * Min(Get(repo, "contributors", 0) * 5, 500)
        + 10 * RecencyPoints(Get(repo, "last_updated_days", 365))
        + 10 * MergeTimePoints(Get(repo, "avg_pr_merge_time", None))
        + 10 * IssueRatioPoints(Get(repo, "open_issues", 0), stars)

\* _calculate_repository_score, in tenths of a point: min(stars / 10, 1000)
\* is Min(stars, 10000) tenths.
CalculateRepositoryScore(repo) ==
    LET stars == Get(repo, "stars", 0)
        contributors == Get(repo, "contributors", 0)
        last_updated == Get(repo, "last_updated_days", 365)
        avg_merge_time == Get(repo, "avg_pr_merge_time", None)
        open_issues == Get(repo, "open_issues", 0)
    IN  Min(stars, 10000)
        + 10 * Min(contributors * 5, 500)
        + 10 * RecencyPoints(last_updated)
        + 10 * MergeTimePoints(avg_merge_time)
        + 10 * IssueRatioPoints(open_issues, stars)

\* repo["composite_score"] = score
WithScore(repo) == Merge(repo, [composite_score |-> CalculateRepositoryScore(repo)])

\* InsertDescending changed to keep the list in ascending order
RECURSIVE InsertAscending(_, _)
InsertAscending(x, sorted) ==
    IF sorted = << >> THEN << x >>
    ELSE IF Head(sorted)["composite_score"] <= x["composite_score"]
         THEN << Head(sorted) >> \o InsertAscending(x, Tail(sorted))
         ELSE << x >> \o sorted

\* InsertDescending changed to place x before the entries of equal score
RECURSIVE InsertDescendingBeforeEqual(_, _)
InsertDescendingBeforeEqual(x, sorted) ==
    IF sorted = << >> THEN << x >>
    ELSE IF Head(sorted)["composite_score"] > x["composite_score"]
         THEN << Head(sorted) >> \o InsertDescendingBeforeEqual(x, Tail(sorted))
         ELSE << x >> \o sorted

\* x placed into a list already in descending order, after every entry whose
\* score is not lower: the place a stable descending sort gives it.
RECURSIVE InsertDescending(_, _)
InsertDescending(x, sorted) ==
    IF sorted = << >> THEN << x >>
    ELSE IF Head(sorted)["composite_score"] >= x["composite_score"]
         THEN << Head(sorted) >> \o InsertDescending(x, Tail(sorted))
         ELSE << x >> \o sorted

\* sorted(repos, key=lambda x: x["composite_score"], reverse=True): stable
RECURSIVE SortedByScoreFrom(_, _)
SortedByScoreFrom(repos, sorted) ==
    IF repos = << >> THEN sorted
    ELSE SortedByScoreFrom(Tail(repos), InsertDescending(Head(repos), sorted))

\* SortedByScore changed to sort the list read from its end
SortedByScoreOfReversed(repos) ==
    SortedByScoreFrom([i \in 1..Len(repos) |-> repos[Len(repos) + 1 - i]], << >>)

SortedByScore(repos) == SortedByScoreFrom(repos, << >>)

-----------------------------------------------------------------------------
(* The Metrics Source client (github_api.py).  An HTTP exchange is the     *)
(* record [status, json]; status 0 stands for a request that got no        *)
(* response (httpx raises).  A call ends Raised or Returned(value).        *)

Raised == [raised |-> TRUE, value |-> None]

Returned(v) == [raised |-> FALSE, value |-> v]

\* client.get(...) raised, or response.raise_for_status() raises
FailsStatus(resp) == resp.status = 0 \/ resp.status >= 400

\* search_repositories, get_pull_requests, get_issues
ApiGetJson(resp) == IF FailsStatus(resp) THEN Raised ELSE Returned(resp.json)

\* get_contributors: 204 is an empty repository
ApiGetContributors(resp) ==
    IF resp.status = 0 THEN Raised
    ELSE IF resp.status = 204 THEN Returned(<< >>)
    ELSE IF FailsStatus(resp) THEN Raised
    ELSE Returned(resp.json)

\* get_releases: 404 is no releases
ApiGetReleases(resp) ==
    IF resp.status = 0 THEN Raised
    ELSE IF resp.status = 404 THEN Returned(<< >>)
    ELSE IF FailsStatus(resp) THEN Raised
    ELSE Returned(resp.json)

\* RetriesAfter changed to retry after every answer that is not 200
RetriesAfterEveryFailure(resp) == resp.status \notin {0, 200}

\* if response.status_code == 202: the statistics are being computed, the
\* request is sent once more after asyncio.sleep(2)
RetriesAfter(resp) == resp.status = 202

\* get_commit_activity: resps are the responses the endpoint gives to the
\* successive requests; requests is how many were sent.
ApiGetCommitActivity(resps) ==
    LET first == resps[1]
        retried == RetriesAfter(first)
        last == IF retried THEN resps[2] ELSE first
        requests == IF first.status # 0 /\ retried THEN 2 ELSE 1
        result == IF first.status = 0 \/ last.status = 0 THEN Raised
                  ELSE IF last.status = 204 THEN Returned(<< >>)
                  ELSE IF FailsStatus(last) THEN Raised
                  ELSE Returned(last.json)
    IN  [raised |-> result.raised, value |-> result.value, requests |-> requests]

-----------------------------------------------------------------------------
(* The five sub-fetches (repository_analyzer.py).  Each catches every      *)
(* exception of its body and returns its default.                          *)

ContributorDefault == 0

PullRequestDefault == [open_prs |-> 0, avg_pr_merge_time |-> None, pr_merge_rate |-> [num |-> 0, den |-> 1]]

IssueDefault == [open_issues_actual |-> 0, avg_issue_close_time |-> None]

ReleaseDefault == [has_releases |-> FALSE, latest_release |-> None]

ActivityDefault == [commit_activity |-> "unknown", commits_last_month |-> 0]

\* sum(xs) / len(xs) if xs else None
Average(xs) == IF xs = << >> THEN None ELSE Some([num |-> SumOf(xs), den |-> Len(xs)])

\* pr.get(k) is truthy: the key is there and holds a timestamp
HasTime(d, k) == k \in DOMAIN d /\ d[k] # None

\* (later - earlier) in days, the two given as days before now
DaysBetween(earlier, later) == earlier[1] - later[1]

GetContributorCount(resp) ==
    LET r == ApiGetContributors(resp)
    IN  IF r.raised THEN ContributorDefault ELSE Len(r.value)

AnalyzePullRequests(resp) ==
    LET r == ApiGetJson(resp)
        prs == r.value
        IsOpen(pr) == pr["state"] = "open"
        IsMerged(pr) == HasTime(pr, "merged_at")
        Timed(pr) == HasTime(pr, "created_at") /\ HasTime(pr, "merged_at")
        merged_prs == SelectSeq(prs, IsMerged)
        timed == SelectSeq(LastN(merged_prs, 50), Timed)
        merge_times == [i \in 1..Len(timed) |->
                           DaysBetween(timed[i]["created_at"], timed[i]["merged_at"])]
    IN  IF r.raised THEN PullRequestDefault
        ELSE IF prs = << >>
        THEN [open_prs |-> 0, avg_pr_merge_time |-> None, pr_merge_rate |-> [num |-> 0, den |-> 1]]
        ELSE IF \E i \in 1..Len(prs) : "state" \notin DOMAIN prs[i]
        THEN PullRequestDefault
        ELSE [open_prs |-> Len(SelectSeq(prs, IsOpen)),
              avg_pr_merge_time |-> Average(merge_times),
              pr_merge_rate |-> [num |-> Len(merged_prs), den |-> Len(prs)],
              total_prs |-> Len(prs)]

AnalyzeIssues(respOpen, respClosed) ==
    LET ro == ApiGetJson(respOpen)
        rc == ApiGetJson(respClosed)
        NotPull(issue) == ~ ("pull_request" \in DOMAIN issue /\ issue["pull_request"] # None)
        Timed(issue) == HasTime(issue, "created_at") /\ HasTime(issue, "closed_at")
        open_issues == SelectSeq(ro.value, NotPull)
        closed_issues == SelectSeq(rc.value, NotPull)
        timed == SelectSeq(closed_issues, Timed)
        close_times == [i \in 1..Len(timed) |->
                           DaysBetween(timed[i]["created_at"], timed[i]["closed_at"])]
    IN  IF ro.raised \/ rc.raised THEN IssueDefault
        ELSE [open_issues_actual |-> Len(open_issues),
              avg_issue_close_time |-> Average(close_times),
              issue_response_activity |-> IF Len(closed_issues) > 20 THEN "high" ELSE "low"]

GetReleaseInfo(resp) ==
    LET r == ApiGetReleases(resp)
        releases == r.value
        latest == releases[1]
        oldest == releases[Len(releases)]
    IN  IF r.raised THEN ReleaseDefault
        ELSE IF releases = << >>
        THEN [has_releases |-> FALSE, latest_release |-> None, release_frequency |-> "none"]
        ELSE IF \/ ~ HasTime(latest, "published_at")
                \/ (Len(releases) > 1 /\ ~ HasTime(oldest, "published_at"))
                \/ "tag_name" \notin DOMAIN latest
        THEN ReleaseDefault
        ELSE [has_releases |-> TRUE,
              latest_release |-> Some(latest["tag_name"]),
              days_since_latest_release |-> latest["published_at"][1],
              total_releases |-> Len(releases),
              avg_days_between_releases |->
                  IF Len(releases) > 1
                  THEN Some([num |-> DaysBetween(oldest["published_at"], latest["published_at"]),
                             den |-> Len(releases) - 1])
                  ELSE None]

AnalyzeCommitActivity(resps) ==
    LET r == ApiGetCommitActivity(resps)
        activity == r.value
        totals == [i \in 1..Len(activity) |-> activity[i]["total"]]
        recent_commits == SumOf(LastN(totals, 4))
        total_commits == SumOf(totals)
    IN  IF r.raised THEN ActivityDefault
        ELSE IF activity = << >> THEN [commit_activity |-> "low", commits_last_month |-> 0]
        ELSE IF \E i \in 1..Len(activity) : "total" \notin DOMAIN activity[i]
        THEN ActivityDefault
        ELSE [commit_activity |-> IF recent_commits > 50 THEN "high"
                                  ELSE IF recent_commits > 10 THEN "medium" ELSE "low",
              commits_last_month |-> recent_commits,
              commits_last_year |-> total_commits]

-----------------------------------------------------------------------------
(* analyze_repository (repository_analyzer.py).  replies holds the         *)
(* response of the Metrics Source to each request of the five sub-fetches. *)

\* repo_data["owner"]["login"] and repo_data["name"] can be read
HasOwnerAndName(repo_data) ==
    /\ "owner" \in DOMAIN repo_data
    /\ "login" \in DOMAIN repo_data["owner"]
    /\ "name" \in DOMAIN repo_data

\* the keys the returned dict reads with repo_data[...]
RequiredKeys ==
    {"id", "full_name", "html_url", "stargazers_count", "forks_count",
     "watchers_count", "open_issues_count", "size", "default_branch"}

\* the base fields of the returned dict, before the metric groups are spread in
BaseFields(repo_data, contributor_count) ==
    [id |-> repo_data["id"],
     name |-> repo_data["full_name"],
     description |-> Get(repo_data, "description", None),
     url |-> repo_data["html_url"],
     stars |-> repo_data["stargazers_count"],
     forks |-> repo_data["forks_count"],
     watchers |-> repo_data["watchers_count"],
     language |-> Get(repo_data, "language", None),
     contributors |-> contributor_count,
     open_issues |-> repo_data["open_issues_count"],
     last_updated |-> repo_data["updated_at"],
     last_updated_days |-> repo_data["updated_at"][1],
     size |-> repo_data["size"],
     default_branch |-> repo_data["default_branch"],
     license |-> IF Get(repo_data, "license", None) # None
                 THEN Get(repo_data["license"][1], "name", None)
                 ELSE None,
     topics |-> Get(repo_data, "topics", << >>),
     has_wiki |-> Get(repo_data, "has_wiki", FALSE),
     has_pages |-> Get(repo_data, "has_pages", FALSE),
     archived |-> Get(repo_data, "archived", FALSE),
     disabled |-> Get(repo_data, "disabled", FALSE)]

\* SubFetchResults changed so that a failing pull request sub-fetch cancels the
\* sub-fetches gathered after it, which then hold their defaults
SubFetchResultsCancelling(replies) ==
    LET cancelled == ApiGetJson(replies.pulls).raised
    IN  [contributor_count |-> GetContributorCount(replies.contributors),
         pr_metrics |-> AnalyzePullRequests(replies.pulls),
         issue_metrics |-> IF cancelled THEN IssueDefault
                           ELSE AnalyzeIssues(replies.issues_open, replies.issues_closed),
         release_info |-> IF cancelled THEN ReleaseDefault
                          ELSE GetReleaseInfo(replies.releases),
         activity_metrics |-> IF cancelled THEN ActivityDefault
                              ELSE AnalyzeCommitActivity(replies.activity)]

\* The five results of the gather, in task order.
SubFetchResults(replies) ==
    [contributor_count |-> GetContributorCount(replies.contributors),
     pr_metrics |-> AnalyzePullRequests(replies.pulls),
     issue_metrics |-> AnalyzeIssues(replies.issues_open, replies.issues_closed),
     release_info |-> GetReleaseInfo(replies.releases),
     activity_metrics |-> AnalyzeCommitActivity(replies.activity)]

\* AnalyzeRepository changed to default a missing last update to a year ago
\* instead of failing
AnalyzeRepositoryDefaulting(repo_data, replies) ==
    IF ~ HasOwnerAndName(repo_data) THEN None
    ELSE LET results == SubFetchResults(replies)
             dated == IF HasTime(repo_data, "updated_at") THEN repo_data
                      ELSE Merge(repo_data, [updated_at |-> Some(365)])
         IN  IF ~ (RequiredKeys \subseteq DOMAIN repo_data)
             THEN None
             ELSE Some(Merge(Merge(Merge(Merge(
                          BaseFields(dated, results.contributor_count),
                          results.pr_metrics),
                          results.issue_metrics),
                          results.release_info),
                          results.activity_metrics))

\* None, or Some(the enriched dict)
AnalyzeRepository(repo_data, replies) ==
    IF ~ HasOwnerAndName(repo_data) THEN None
    ELSE LET results == SubFetchResults(replies)
         IN  IF \/ ~ HasTime(repo_data, "updated_at")
                \/ ~ (RequiredKeys \subseteq DOMAIN repo_data)
             THEN None
             ELSE Some(Merge(Merge(Merge(Merge(
                          BaseFields(repo_data, results.contributor_count),
                          results.pr_metrics),
                          results.issue_metrics),
                          results.release_info),
                          results.activity_metrics))

-----------------------------------------------------------------------------
(* The candidate set of _search_repositories (github_agent.py) *)

\* unique_repos[repo["id"]] = repo for each repo, then list(unique_repos.values()):
\* a dict keeps a key at the place of its first insertion and holds the value
\* assigned last.
\* UniqueById changed to keep the first entry of an identity
RECURSIVE UniqueByIdKeepFirst(_, _)
UniqueByIdKeepFirst(repos, unique_repos) ==
    IF repos = << >> THEN unique_repos
    ELSE IF \E i \in 1..Len(unique_repos) : unique_repos[i]["id"] = Head(repos)["id"]
         THEN UniqueByIdKeepFirst(Tail(repos), unique_repos)
         ELSE UniqueByIdKeepFirst(Tail(repos), Append(unique_repos, Head(repos)))

\* UniqueById changed to move an identity that is assigned again to the end
RECURSIVE UniqueByIdMoveToEnd(_, _)
UniqueByIdMoveToEnd(repos, unique_repos) ==
    IF repos = << >> THEN unique_repos
    ELSE LET repo == Head(repos)
             others == SelectSeq(unique_repos, LAMBDA r : r["id"] # repo["id"])
         IN  UniqueByIdMoveToEnd(Tail(repos), Append(others, repo))

RECURSIVE UniqueById(_, _)
UniqueById(repos, unique_repos) ==
    IF repos = << >> THEN unique_repos
    ELSE LET repo == Head(repos)
             at == {i \in 1..Len(unique_repos) : unique_repos[i]["id"] = repo["id"]}
         IN  IF at = {}
             THEN UniqueById(Tail(repos), Append(unique_repos, repo))
             ELSE UniqueById(Tail(repos),
                             [unique_repos EXCEPT ![CHOOSE i \in at : TRUE] = repo])

\* the limit of the candidate set
MaxCandidates == 30

\* CandidateSet changed to keep every distinct repository
CandidateSetUntruncated(repos) == UniqueById(repos, << >>)

\* list(unique_repos.values())[:30]
CandidateSet(repos) == Take(UniqueById(repos, << >>), MaxCandidates)

\* results.get("items", [])
ItemsOf(results) == Get(results, "items", << >>)

-----------------------------------------------------------------------------
(* The workflow (github_agent.py): one action per node of the graph, and   *)
(* the steps of the batch loop of _analyze_repositories.                   *)

\* The fixed texts of the responses; a response is [text, arg].
NoResponseYet == [text |-> "", arg |-> None]

NoRepositoriesMessage ==
    [text |-> "No repositories available for diagram generation. Please search for repositories first.",
     arg |-> None]

FallbackMessage ==
    [text |-> "I couldn't find any repositories matching your criteria. Try refining your search terms.",
     arg |-> None]

GeneratedMessage(name) == [text |-> "Generated class diagram for ", arg |-> Some(name)]

\* FailedMessage changed to the narrative of a generated diagram
FailedMessageAsGenerated(name) == GeneratedMessage(name)

FailedMessage(name) == [text |-> "Failed to generate diagram for ", arg |-> Some(name)]

GenericDiagramMessage == [text |-> "Generated class diagram", arg |-> None]

\* One entry of the history of external calls: which call, with what, whether
\* it raised, and what it answered.
Call(name, arg, failed, result) ==
    [call |-> name, arg |-> arg, failed |-> failed, result |-> result]

\* json.loads(content): content is [syntax, value]
JsonLoads(content) == IF content.syntax = "invalid" THEN Raised ELSE Returned(content.value)

\* _parse_query.  reply is the interpreter's answer: [failed, content].
ParseQuery(reply) ==
    /\ pc = "parse_query"
    /\ visited' = Append(visited, "parse_query")
    /\ calls' = Append(calls, Call("interpreter", user_query, reply.failed,
                                  IF reply.failed THEN None ELSE << reply.content >>))
    /\ IF reply.failed
       THEN \* ainvoke raised, outside the try
            /\ pc' = "raised"
            /\ UNCHANGED << search_terms, language, requirements >>
       ELSE LET parsed == JsonLoads(reply.content)
            IN  IF parsed.raised
                THEN \* except json.JSONDecodeError
                     /\ search_terms' = << user_query >>
                     /\ language' = None
                     /\ requirements' = << >>
                     /\ pc' = "route_request"
                ELSE IF parsed.value.type # "dict"
                THEN \* parsed_data.get raises AttributeError, which is not caught
                     /\ pc' = "raised"
                     /\ UNCHANGED << search_terms, language, requirements >>
                ELSE /\ search_terms' = Get(parsed.value.dict, "search_terms", << >>)
                     /\ language' = Get(parsed.value.dict, "language", None)
                     /\ requirements' = Get(parsed.value.dict, "requirements", << >>)
                     /\ pc' = "route_request"
    /\ UNCHANGED << user_query, repositories, analyzed_repositories, ranked_repositories,
                    response, diagram_path, stored_repositories, batch_start,
                    batch_results, analyzed_acc >>

\* RouteRequestStep changed to send a search request straight to the ranking
RouteRequestStepSkippingSearch ==
    /\ pc = "route_request"
    /\ pc' = IF RouteRequest(user_query) = "diagram"
             THEN "generate_diagram" ELSE "rank_repositories"
    /\ UNCHANGED << user_query, search_terms, language, requirements, repositories,
                    analyzed_repositories, ranked_repositories, response, diagram_path,
                    stored_repositories, batch_start, batch_results, analyzed_acc,
                    visited, calls >>

\* The conditional edge after parse_query.
RouteRequestStep ==
    /\ pc = "route_request"
    /\ pc' = IF RouteRequest(user_query) = "diagram"
             THEN "generate_diagram" ELSE "search_repositories"
    /\ UNCHANGED << user_query, search_terms, language, requirements, repositories,
                    analyzed_repositories, ranked_repositories, response, diagram_path,
                    stored_repositories, batch_start, batch_results, analyzed_acc,
                    visited, calls >>

\* The query of one search call: the term, and the language qualifier if any.
SearchQuery(term) == [term |-> term, qualifier |-> language]

\* _search_repositories.  replies[k] is the Metrics Source's response to the
\* call of the k-th term.
SearchRepositories(replies) ==
    LET n == Len(search_terms)
        results == [k \in 1..n |-> ApiGetJson(replies[k])]
        failing == {k \in 1..n : results[k].raised}
        made == IF failing = {} THEN n
                ELSE CHOOSE k \in failing : \A j \in failing : k <= j
        found == Concat([k \in 1..n |-> ItemsOf(results[k].value)])
    IN  /\ pc = "search_repositories"
        /\ Len(replies) = n
        /\ visited' = Append(visited, "search_repositories")
        /\ calls' = calls \o [k \in 1..made |->
                        Call("search", SearchQuery(search_terms[k]), results[k].raised,
                             ItemsOf(results[k].value))]
        /\ IF failing # {}
           THEN \* the call's exception leaves the node
                /\ pc' = "raised"
                /\ UNCHANGED repositories
           ELSE /\ repositories' = CandidateSet(found)
                /\ pc' = "analyze_repositories"
        /\ UNCHANGED << user_query, search_terms, language, requirements,
                        analyzed_repositories, ranked_repositories, response,
                        diagram_path, stored_repositories, batch_start, batch_results,
                        analyzed_acc >>

\* batch_size of _analyze_repositories
batch_size == 5

\* Batch changed to take every candidate that is left
BatchToTheEnd(i) == SubSeq(repositories, i + 1, Len(repositories))

\* repositories[i:i + batch_size]
Batch(i) == SubSeq(repositories, i + 1, Min(i + batch_size, Len(repositories)))

Pending == [done |-> FALSE, result |-> None]

Resolved(result) == [done |-> TRUE, result |-> result]

\* The gather of one batch is started: one analyze_repository per candidate.
Launch(i) == [k \in 1..Len(Batch(i)) |-> Pending]

\* _analyze_repositories is entered: the first batch is launched, or there is none.
AnalyzeRepositoriesEnter ==
    /\ pc = "analyze_repositories"
    /\ visited' = Append(visited, "analyze_repositories")
    /\ analyzed_acc' = << >>
    /\ batch_start' = 0
    /\ IF repositories = << >>
       THEN /\ analyzed_repositories' = << >>
            /\ batch_results' = << >>
            /\ pc' = "rank_repositories"
       ELSE /\ batch_results' = Launch(0)
            /\ pc' = "analyze_gather"
            /\ UNCHANGED analyzed_repositories
    /\ UNCHANGED << user_query, search_terms, language, requirements, repositories,
                    ranked_repositories, response, diagram_path, stored_repositories,
                    calls >>

\* The analyze_repository of the k-th candidate of the batch returns.
AnalyzeRepositoryReturns(k, replies) ==
    /\ pc = "analyze_gather"
    /\ k \in 1..Len(batch_results)
    /\ ~ batch_results[k].done
    /\ batch_results' = [batch_results EXCEPT
                            ![k] = Resolved(AnalyzeRepository(Batch(batch_start)[k], replies))]
    /\ calls' = Append(calls, Call("enrich", << batch_start, k >>,
                                   AnalyzeRepository(Batch(batch_start)[k], replies) = None,
                                   replies))
    /\ UNCHANGED << pc, user_query, search_terms, language, requirements, repositories,
                    analyzed_repositories, ranked_repositories, response, diagram_path,
                    stored_repositories, batch_start, analyzed_acc, visited >>

\* the results of the batch that are kept, in the order of the batch
RECURSIVE KeptResults(_)
KeptResults(results) ==
    IF results = << >> THEN << >>
    ELSE IF Head(results).result # None
         THEN << Head(results).result[1] >> \o KeptResults(Tail(results))
         ELSE KeptResults(Tail(results))

\* GatherReturns changed to collect the results in the order the candidates
\* resolved
GatherReturnsByArrival ==
    LET IsMine(c) == c.call = "enrich" /\ c.arg[1] = batch_start
        mine == SelectSeq(calls, IsMine)
    IN  /\ pc = "analyze_gather"
        /\ \A k \in 1..Len(batch_results) : batch_results[k].done
        /\ analyzed_acc' = analyzed_acc
                \o KeptResults([i \in 1..Len(mine) |-> batch_results[mine[i].arg[2]]])
        /\ pc' = "analyze_sleep"
        /\ UNCHANGED << user_query, search_terms, language, requirements, repositories,
                        analyzed_repositories, ranked_repositories, response, diagram_path,
                        stored_repositories, batch_start, batch_results, visited, calls >>

\* GatherReturns changed to return as soon as one candidate has resolved
GatherReturnsFirstCompleted ==
    /\ pc = "analyze_gather"
    /\ \E k \in 1..Len(batch_results) : batch_results[k].done
    /\ analyzed_acc' = analyzed_acc \o KeptResults(batch_results)
    /\ pc' = "analyze_sleep"
    /\ UNCHANGED << user_query, search_terms, language, requirements, repositories,
                    analyzed_repositories, ranked_repositories, response, diagram_path,
                    stored_repositories, batch_start, batch_results, visited, calls >>

\* The gather returns: every candidate of the batch has resolved.
GatherReturns ==
    /\ pc = "analyze_gather"
    /\ \A k \in 1..Len(batch_results) : batch_results[k].done
    /\ analyzed_acc' = analyzed_acc \o KeptResults(batch_results)
    /\ pc' = "analyze_sleep"
    /\ UNCHANGED << user_query, search_terms, language, requirements, repositories,
                    analyzed_repositories, ranked_repositories, response, diagram_path,
                    stored_repositories, batch_start, batch_results, visited, calls >>

\* asyncio.sleep(0.5) returns: the next batch is launched, or the node ends.
SleepReturns ==
    /\ pc = "analyze_sleep"
    /\ batch_start' = batch_start + batch_size
    /\ IF batch_start + batch_size < Len(repositories)
       THEN /\ batch_results' = Launch(batch_start + batch_size)
            /\ pc' = "analyze_gather"
            /\ UNCHANGED analyzed_repositories
       ELSE /\ analyzed_repositories' = analyzed_acc
            /\ batch_results' = << >>
            /\ pc' = "rank_repositories"
    /\ UNCHANGED << user_query, search_terms, language, requirements, repositories,
                    ranked_repositories, response, diagram_path, stored_repositories,
                    analyzed_acc, visited, calls >>

\* the list with every entry given its composite_score
Scored(repos) == [i \in 1..Len(repos) |-> WithScore(repos[i])]

\* RankRepositories changed to put the ranking into the list it was given:
\* the list find_repositories took from its caller
RankRepositoriesIntoSameList ==
    /\ pc = "rank_repositories"
    /\ visited' = Append(visited, "rank_repositories")
    /\ IF analyzed_repositories = << >>
       THEN /\ ranked_repositories' = << >>
            /\ stored_repositories' = << >>
            /\ UNCHANGED analyzed_repositories
       ELSE /\ analyzed_repositories' = Scored(analyzed_repositories)
            /\ ranked_repositories' = SortedByScore(Scored(analyzed_repositories))
            /\ stored_repositories' = SortedByScore(Scored(analyzed_repositories))
    /\ pc' = "generate_response"
    /\ UNCHANGED << user_query, search_terms, language, requirements, repositories,
                    response, diagram_path, batch_start, batch_results, analyzed_acc,
                    calls >>

\* RankRepositories changed to leave the ranked list as it is when nothing was
\* enriched
RankRepositoriesKeepingWhenEmpty ==
    /\ pc = "rank_repositories"
    /\ visited' = Append(visited, "rank_repositories")
    /\ IF analyzed_repositories = << >>
       THEN UNCHANGED << ranked_repositories, analyzed_repositories >>
       ELSE /\ analyzed_repositories' = Scored(analyzed_repositories)
            /\ ranked_repositories' = SortedByScore(Scored(analyzed_repositories))
    /\ pc' = "generate_response"
    /\ UNCHANGED << user_query, search_terms, language, requirements, repositories,
                    response, diagram_path, stored_repositories, batch_start,
                    batch_results, analyzed_acc, calls >>

\* _rank_repositories: the entries of analyzed_repositories are scored in
\* place, and ranked_repositories is a new sorted list of the same entries.
RankRepositories ==
    /\ pc = "rank_repositories"
    /\ visited' = Append(visited, "rank_repositories")
    /\ IF analyzed_repositories = << >>
       THEN /\ ranked_repositories' = << >>
            /\ UNCHANGED analyzed_repositories
       ELSE /\ analyzed_repositories' = Scored(analyzed_repositories)
            /\ ranked_repositories' = SortedByScore(Scored(analyzed_repositories))
    /\ pc' = "generate_response"
    /\ UNCHANGED << user_query, search_terms, language, requirements, repositories,
                    response, diagram_path, stored_repositories, batch_start,
                    batch_results, analyzed_acc, calls >>


\* ClassDiagramGenerator.generate_diagram (class_diagram_generator.py): run
\* tells how the LLM call and the rendering go.  Every exception is caught.
GenerateDiagramPath(run) ==
    IF run.llm_failed THEN None
    ELSE IF run.dot_code = "" THEN None
    ELSE IF run.render_failed THEN None
    ELSE Some("diagram.png")

\* _generate_diagram
GenerateDiagram(run) ==
    LET repo_index == RepoIndex(user_query)
        repos == ranked_repositories
        selected_repo == repos[repo_index + 1]
        path == GenerateDiagramPath(run)
    IN  /\ pc = "generate_diagram"
        /\ visited' = Append(visited, "generate_diagram")
        /\ IF repos = << >> \/ repo_index >= Len(repos)
           THEN /\ response' = NoRepositoriesMessage
                /\ UNCHANGED << diagram_path, calls >>
           ELSE /\ calls' = Append(calls, Call("diagram", selected_repo["name"], path = None, path))
                /\ IF path # None
                   THEN /\ diagram_path' = path
                        /\ response' = GeneratedMessage(selected_repo["name"])
                   ELSE /\ response' = FailedMessage(selected_repo["name"])
                        /\ UNCHANGED diagram_path
        /\ pc' = "generate_response"
        /\ UNCHANGED << user_query, search_terms, language, requirements, repositories,
                        analyzed_repositories, ranked_repositories, stored_repositories,
                        batch_start, batch_results, analyzed_acc >>

\* _generate_response.  reply is the responder's answer: [failed, content].
GenerateResponse(reply) ==
    LET top == Take(ranked_repositories, 3)
    IN  /\ pc = "generate_response"
        /\ visited' = Append(visited, "generate_response")
        /\ IF ResponseHasDiagramKeyword(user_query)
           THEN /\ response' = IF response.text # "" THEN response ELSE GenericDiagramMessage
                /\ pc' = "END"
                /\ UNCHANGED calls
           ELSE IF top = << >>
           THEN /\ response' = FallbackMessage
                /\ pc' = "END"
                /\ UNCHANGED calls
           ELSE /\ calls' = Append(calls, Call("responder", top, reply.failed,
                                         IF reply.failed THEN None ELSE << reply.content >>))
                /\ IF reply.failed
                   THEN /\ pc' = "raised"
                        /\ UNCHANGED response
                   ELSE /\ response' = reply.content
                        /\ pc' = "END"
        /\ UNCHANGED << user_query, search_terms, language, requirements, repositories,
                        analyzed_repositories, ranked_repositories, diagram_path,
                        stored_repositories, batch_start, batch_results, analyzed_acc >>

\* What find_repositories returns once the workflow has ended.
Returned_message == response

Returned_repositories == ranked_repositories

Returned_diagram_path == diagram_path

-----------------------------------------------------------------------------
(* The inputs of the workflow specification: the request texts, what the   *)
(* interpreter, the Metrics Source, the diagram generator and the          *)
(* responder answer.                                                       *)

\* the most search terms the interpreter returns
MaxTerms == 2

Q_find == << "F", "i", "n", "d", " ", "a", "p", "i" >>
Q_show2 == << "S", "h", "o", "w", " ", "2" >>
Q_draw == << "d", "r", "a", "w" >>

Queries == {Q_find, Q_show2, Q_draw}

Terms == << << "a", "p", "i" >>, << "h", "t", "t", "p" >>, << "r", "e", "s", "t" >>,
            << "w", "e", "b" >> >>

\* a repository as the search endpoint returns it
RawRepo(id, stars, issues, days) ==
    [id |-> id,
     owner |-> [login |-> "octo"],
     name |-> << "repo", id >>,
     full_name |-> << "octo/repo", id >>,
     description |-> Some("a repository"),
     html_url |-> << "https://github.com/octo/repo", id >>,
     stargazers_count |-> stars,
     forks_count |-> 1,
     watchers_count |-> stars,
     language |-> Some("Python"),
     open_issues_count |-> issues,
     updated_at |-> Some(days),
     size |-> 10,
     default_branch |-> "main"]

HttpError == [status |-> 500, json |-> << >>]

Http(json) == [status |-> 200, json |-> json]

ContributorsOk == Http(<< [login |-> "a"], [login |-> "b"] >>)

PullsOk ==
    Http(<< [state |-> "open", created_at |-> Some(10), merged_at |-> None],
            [state |-> "closed", created_at |-> Some(9), merged_at |-> Some(7)] >>)

IssuesOpenOk ==
    Http(<< [created_at |-> Some(5), closed_at |-> None, pull_request |-> None],
            [created_at |-> Some(4), closed_at |-> None, pull_request |-> Some("url")] >>)

IssuesClosedOk ==
    Http(<< [created_at |-> Some(8), closed_at |-> Some(4), pull_request |-> None] >>)

ReleasesOk ==
    Http(<< [tag_name |-> "v2", published_at |-> Some(3)],
            [tag_name |-> "v1", published_at |-> Some(33)] >>)

ActivityOk == << Http(<< [total |-> 5], [total |-> 7] >>) >>

\* every sub-fetch request answered
AllOk ==
    [contributors |-> ContributorsOk, pulls |-> PullsOk, issues_open |-> IssuesOpenOk,
     issues_closed |-> IssuesClosedOk, releases |-> ReleasesOk, activity |-> ActivityOk]

\* every sub-fetch request failing
AllFailing ==
    [contributors |-> HttpError, pulls |-> HttpError, issues_open |-> HttpError,
     issues_closed |-> HttpError, releases |-> HttpError, activity |-> << HttpError >>]

\* each sub-fetch request either answered or failing
FetchReplies ==
    [contributors : {ContributorsOk, HttpError},
     pulls : {PullsOk, HttpError},
     issues_open : {IssuesOpenOk, HttpError},
     issues_closed : {IssuesClosedOk, HttpError},
     releases : {ReleasesOk, HttpError},
     activity : {ActivityOk, << HttpError >>}]

\* the requests of r that fail
FailingRequests(r) == {f \in DOMAIN r : r[f] = AllFailing[f]}

\* no request, one request or every request of a candidate failing
SmallFetchReplies ==
    {r \in FetchReplies : Cardinality(FailingRequests(r)) \in {0, 1, 6}}

Repo1 == RawRepo(1, 100, 0, 3)
Repo1Later == RawRepo(1, 120, 0, 3)
Repo2 == RawRepo(2, 50, 20, 200)

SearchError == [status |-> 403, json |-> [message |-> "rate limit"]]

SmallSearchReplies ==
    {SearchError, Http([items |-> << Repo1 >>]), Http([items |-> << Repo2, Repo1Later >>])}

\* a list an earlier request of the session returned
RankedFrom(raws) ==
    SortedByScore(Scored([i \in 1..Len(raws) |-> AnalyzeRepository(raws[i], AllOk)[1]]))

StoredChoices == {<< >>, RankedFrom(<< Repo1 >>), RankedFrom(<< Repo2, Repo1 >>)}

InterpreterObjects ==
    {[search_terms |-> SubSeq(Terms, 1, n), language |-> None, requirements |-> << >>] :
        n \in 0..MaxTerms}
    \cup {[search_terms |-> SubSeq(Terms, 1, 1), language |-> Some("python")],
          [requirements |-> << "fast" >>]}

InterpreterReplies ==
    {[failed |-> TRUE, content |-> [syntax |-> "invalid", value |-> None]],
     [failed |-> FALSE, content |-> [syntax |-> "invalid", value |-> None]],
     [failed |-> FALSE, content |-> [syntax |-> "valid", value |-> [type |-> "list", dict |-> << >>]]]}
    \cup {[failed |-> FALSE, content |-> [syntax |-> "valid", value |-> [type |-> "dict", dict |-> d]]] :
            d \in InterpreterObjects}

ResponderReplies ==
    {[failed |-> TRUE, content |-> NoResponseYet],
     [failed |-> FALSE, content |-> [text |-> "Here are the repositories I recommend.", arg |-> None]]}

DiagramRuns ==
    {[llm_failed |-> TRUE, dot_code |-> "", render_failed |-> FALSE],
     [llm_failed |-> FALSE, dot_code |-> "", render_failed |-> FALSE],
     [llm_failed |-> FALSE, dot_code |-> "digraph", render_failed |-> TRUE],
     [llm_failed |-> FALSE, dot_code |-> "digraph", render_failed |-> FALSE]}

\* the replies to the search calls of a node with n terms
SearchReplySeqs(n, replies) == [1..n -> replies]

-----------------------------------------------------------------------------
(* The workflow specification: one request, from find_repositories' initial *)
(* state to the end of the graph or to the exception that leaves it.        *)

\* find_repositories' initial_state, for a query and a stored list
InitialState(query, stored) ==
    /\ pc = "parse_query"
    /\ user_query = query
    /\ search_terms = << >>
    /\ language = None
    /\ requirements = << >>
    /\ repositories = << >>
    /\ analyzed_repositories = << >>
    /\ ranked_repositories = stored
    /\ response = NoResponseYet
    /\ diagram_path = None
    /\ stored_repositories = stored
    /\ batch_start = 0
    /\ batch_results = << >>
    /\ analyzed_acc = << >>
    /\ visited = << >>
    /\ calls = << >>

Init == \E query \in Queries, stored \in StoredChoices : InitialState(query, stored)

Next ==
    \/ \E reply \in InterpreterReplies : ParseQuery(reply)
    \/ RouteRequestStep
    \/ \E replies \in SearchReplySeqs(Len(search_terms), SmallSearchReplies) :
          SearchRepositories(replies)
    \/ AnalyzeRepositoriesEnter
    \/ \E k \in 1..batch_size, replies \in SmallFetchReplies : AnalyzeRepositoryReturns(k, replies)
    \/ GatherReturns
    \/ SleepReturns
    \/ RankRepositories
    \/ \E run \in DiagramRuns : GenerateDiagram(run)
    \/ \E reply \in ResponderReplies : GenerateResponse(reply)

Spec == Init /\ [][Next]_vars

-----------------------------------------------------------------------------
(* Properties of the workflow, checked under Spec *)

\* the places of the search calls in the history
SearchCalls == {i \in 1..Len(calls) : calls[i].call = "search"}

\* the node that ran last
LastNode == IF visited = << >> THEN "none" ELSE visited[Len(visited)]

\* the request is over: the graph ended, or an exception left it
RequestOver == pc \in {"END", "raised"}

\* C2: partial search success.  When the search call of at least one term
\* succeeded, the search stage does not fail: it yields the merged items and the
\* request goes on to enrichment, whatever the calls of the other terms did.
C2_PartialSearchSuccess ==
    (LastNode = "search_repositories" /\ \E i \in SearchCalls : ~ calls[i].failed)
        => pc = "analyze_repositories"

\* C3: when the call of every search term fails, the request still completes,
\* with an empty ranked list and the fixed fallback narrative: the failure does
\* not reach the caller of find_repositories.
C3_AllSearchesFailedStillCompletes ==
    (/\ RequestOver
     /\ SearchCalls # {}
     /\ \A i \in SearchCalls : calls[i].failed)
        => (/\ pc = "END"
            /\ Returned_repositories = << >>
            /\ Returned_message = FallbackMessage)

\* C4: whatever external calls fail (interpreter, search, enrichment sub-fetch,
\* diagram generation, responder), no failure aborts the request: an exception
\* never leaves the graph, so the only way a request ends is Done, after the
\* response stage.
C4_NoFailureAbortsRequest ==
    /\ pc # "raised"
    /\ pc = "END" => LastNode = "generate_response"

\* the interpreter answered, with a text that is not JSON or is JSON but not an object
InterpreterOutputUnusable ==
    /\ calls # << >>
    /\ calls[1].call = "interpreter"
    /\ ~ calls[1].failed
    /\ LET content == calls[1].result[1]
       IN  content.syntax = "invalid" \/ content.value.type # "dict"

\* C5: interpreter fallback.  Right after the query-parsing stage, if the
\* interpreter's output was malformed or not the expected structured object, the
\* search terms are the single-element list holding the whole request text, there
\* is no language filter and no requirement, and no failure was propagated.
C5_InterpreterFallback ==
    (visited = << "parse_query" >> /\ InterpreterOutputUnusable)
        => (/\ pc = "route_request"
            /\ search_terms = << user_query >>
            /\ language = None
            /\ requirements = << >>)

-----------------------------------------------------------------------------
(* The search specification: the search stage alone, on result pages large *)
(* enough to pass the limit of the candidate set.                          *)

\* per_page of the search calls
per_page == 20

\* a page of results: len repositories with consecutive identities from start
SearchPage(start, len, stars) == [i \in 1..len |-> RawRepo(start + i - 1, stars, 0, 3)]

SearchPages ==
    {SearchPage(start, len, stars) :
        start \in {1, 11, 15, 21}, len \in {0, 2, per_page}, stars \in {100, 120}}

LargeSearchReplies ==
    {SearchError, Http([total_count |-> 0])} \cup {Http([items |-> page]) : page \in SearchPages}

\* the state in which the search node is entered, the interpreter having
\* returned the object d for the request text query
SearchEntered(query, d) ==
    /\ pc = "search_repositories"
    /\ user_query = query
    /\ search_terms = Get(d, "search_terms", << >>)
    /\ language = Get(d, "language", None)
    /\ requirements = Get(d, "requirements", << >>)
    /\ repositories = << >>
    /\ analyzed_repositories = << >>
    /\ ranked_repositories = << >>
    /\ response = NoResponseYet
    /\ diagram_path = None
    /\ stored_repositories = << >>
    /\ batch_start = 0
    /\ batch_results = << >>
    /\ analyzed_acc = << >>
    /\ visited = << "parse_query" >>
    /\ calls = << Call("interpreter", query, FALSE,
                       << [syntax |-> "valid", value |-> [type |-> "dict", dict |-> d]] >>) >>

InitSearch ==
    \E n \in 1..MaxTerms :
        SearchEntered(Q_find, [search_terms |-> SubSeq(Terms, 1, n), language |-> None,
                               requirements |-> << >>])

NextSearch ==
    \E replies \in SearchReplySeqs(Len(search_terms), LargeSearchReplies) :
        SearchRepositories(replies)

SpecSearch == InitSearch /\ [][NextSearch]_vars

\* every item the search calls returned, in the order of the calls
Found == Concat([i \in 1..Len(calls) |->
                    IF calls[i].call = "search" THEN calls[i].result ELSE << >>])

\* the identities of a list of repositories
Ids(repos) == {repos[i]["id"] : i \in 1..Len(repos)}

\* the places of the identity id in repos
Places(repos, id) == {i \in 1..Len(repos) : repos[i]["id"] = id}

\* the last occurrence of the identity id in repos
LastOccurrence(repos, id) ==
    repos[CHOOSE i \in Places(repos, id) : \A j \in Places(repos, id) : j <= i]

\* the search stage has produced its candidate set
SearchDone == LastNode = "search_repositories" /\ pc = "analyze_repositories"

\* C1, as stated: every identity among the search results is in the candidate
\* set exactly once, and its entry is its last occurrence across all terms.
C1_EachIdentityExactlyOnce ==
    SearchDone =>
        \A id \in Ids(Found) :
            /\ Cardinality(Places(repositories, id)) = 1
            /\ \A i \in Places(repositories, id) : repositories[i] = LastOccurrence(Found, id)

\* C1, amended: no identity is in the candidate set more than once; every entry
\* of the candidate set is the last occurrence of its identity across all terms;
\* and when the results hold at most 30 distinct identities, each of them is in
\* the candidate set (otherwise 30 of them are).
C1_DeduplicatedLastWins ==
    SearchDone =>
        /\ \A id \in Ids(Found) : Cardinality(Places(repositories, id)) <= 1
        /\ \A i \in 1..Len(repositories) :
              /\ repositories[i]["id"] \in Ids(Found)
              /\ repositories[i] = LastOccurrence(Found, repositories[i]["id"])
        /\ Cardinality(Ids(repositories)) = Min(Cardinality(Ids(Found)), MaxCandidates)

\* C1's case: an identity was returned twice, with different entries
C1_Witness ==
    /\ SearchDone
    /\ \E i, j \in 1..Len(Found) :
          i < j /\ Found[i]["id"] = Found[j]["id"] /\ Found[i] # Found[j]
    /\ repositories # << >>

-----------------------------------------------------------------------------
(* The enrichment specification: the enrichment stage alone, one candidate *)
(* per request, on every combination of answers to its six requests.       *)

EmptyRepository == [status |-> 204, json |-> << >>]

NotFound == [status |-> 404, json |-> << >>]

\* 202: the statistics are being computed
Computing == [status |-> 202, json |-> << >>]

LargeFetchReplies ==
    [contributors : {ContributorsOk, EmptyRepository, HttpError},
     pulls : {PullsOk, Http(<< >>), HttpError},
     issues_open : {IssuesOpenOk, HttpError},
     issues_closed : {IssuesClosedOk, HttpError},
     releases : {ReleasesOk, NotFound, HttpError},
     activity : {ActivityOk, << Computing, ActivityOk[1] >>, << Computing, Computing >>,
                 << HttpError >>, << Computing, HttpError >>}]

\* a repository whose owner the search did not return
RepoNoOwner == [k \in (DOMAIN Repo2) \ {"owner"} |-> Repo2[k]]

\* a repository without its last update
RepoNoUpdate == [k \in (DOMAIN Repo2) \ {"updated_at"} |-> Repo2[k]]

\* the state in which the enrichment node is entered with the candidates
EnrichEntered(candidates) ==
    /\ pc = "analyze_repositories"
    /\ user_query = Q_find
    /\ search_terms = << Q_find >>
    /\ language = None
    /\ requirements = << >>
    /\ repositories = candidates
    /\ analyzed_repositories = << >>
    /\ ranked_repositories = << >>
    /\ response = NoResponseYet
    /\ diagram_path = None
    /\ stored_repositories = << >>
    /\ batch_start = 0
    /\ batch_results = << >>
    /\ analyzed_acc = << >>
    /\ visited = << "parse_query", "search_repositories" >>
    /\ calls = << Call("interpreter", Q_find, FALSE,
                       << [syntax |-> "invalid", value |-> None] >>),
                  Call("search", [term |-> Q_find, qualifier |-> None], FALSE, candidates) >>

InitEnrich ==
    \E repo \in {Repo1, Repo2, RepoNoOwner, RepoNoUpdate} : EnrichEntered(<< repo >>)

NextEnrich ==
    \/ AnalyzeRepositoriesEnter
    \/ \E k \in 1..batch_size, replies \in LargeFetchReplies : AnalyzeRepositoryReturns(k, replies)
    \/ GatherReturns
    \/ SleepReturns

SpecEnrich == InitEnrich /\ [][NextEnrich]_vars

\* The five sub-fetches: the requests each sends, the keys of the enriched
\* entry that are its group, and the default of the group.
SubFetches == {"contributors", "pulls", "issues", "releases", "activity"}

RequestsOf(f) == IF f = "issues" THEN {"issues_open", "issues_closed"} ELSE {f}

GroupKeys(f) ==
    CASE f = "contributors" -> {"contributors"}
      [] f = "pulls" -> {"open_prs", "avg_pr_merge_time", "pr_merge_rate", "total_prs"}
      [] f = "issues" -> {"open_issues_actual", "avg_issue_close_time", "issue_response_activity"}
      [] f = "releases" -> {"has_releases", "latest_release", "release_frequency",
                            "days_since_latest_release", "total_releases",
                            "avg_days_between_releases"}
      [] f = "activity" -> {"commit_activity", "commits_last_month", "commits_last_year"}

\* the documented default of a group: zero, or absent
DocumentedDefault(f) ==
    CASE f = "contributors" -> [contributors |-> 0]
      [] f = "pulls" -> [open_prs |-> 0, avg_pr_merge_time |-> None,
                         pr_merge_rate |-> [num |-> 0, den |-> 1]]
      [] f = "issues" -> [open_issues_actual |-> 0, avg_issue_close_time |-> None]
      [] f = "releases" -> [has_releases |-> FALSE, latest_release |-> None]
      [] f = "activity" -> [commit_activity |-> "unknown", commits_last_month |-> 0]

\* what the sub-fetch f itself returned for the replies, as a group
OwnResult(f, replies) ==
    CASE f = "contributors" -> [contributors |-> GetContributorCount(replies.contributors)]
      [] f = "pulls" -> AnalyzePullRequests(replies.pulls)
      [] f = "issues" -> AnalyzeIssues(replies.issues_open, replies.issues_closed)
      [] f = "releases" -> GetReleaseInfo(replies.releases)
      [] f = "activity" -> AnalyzeCommitActivity(replies.activity)

\* a request of the replies got no answer or an error status
RequestFailed(replies, r) ==
    IF r = "activity"
    THEN FailsStatus(replies[r][1])
         \/ (replies[r][1].status = 202 /\ FailsStatus(replies[r][2]))
    ELSE FailsStatus(replies[r]) /\ ~ (r = "releases" /\ replies[r].status = 404)

\* the sub-fetches of the replies that failed
FailedSubFetches(replies) ==
    {f \in SubFetches : \E r \in RequestsOf(f) : RequestFailed(replies, r)}

\* the group f of the enriched entry e
Group(e, f) == [k \in GroupKeys(f) \cap DOMAIN e |-> e[k]]

\* the enrichment calls of the history whose candidate has required base fields
EnrichCalls == {i \in 1..Len(calls) : calls[i].call = "enrich"}

\* the slot of the gather the i-th call of the history filled
SlotOf(i) == batch_results[calls[i].arg[2]]

\* C6: batch isolation.  For every candidate whose base fields can be read and
\* every one of the five sub-fetches, if exactly that sub-fetch failed, the
\* candidate is still enriched, the group of the failed sub-fetch holds its
\* documented default, and each of the other four groups holds exactly what its
\* own sub-fetch returned.
C6_BatchIsolation ==
    \A i \in EnrichCalls :
        LET replies == calls[i].result
            candidate == Batch(calls[i].arg[1])[calls[i].arg[2]]
        IN  (/\ pc = "analyze_gather"
             /\ HasOwnerAndName(candidate)
             /\ HasTime(candidate, "updated_at")
             /\ Cardinality(FailedSubFetches(replies)) = 1)
            => /\ SlotOf(i).done
               /\ SlotOf(i).result # None
               /\ \A f \in SubFetches :
                     Group(SlotOf(i).result[1], f) =
                        IF f \in FailedSubFetches(replies)
                        THEN DocumentedDefault(f)
                        ELSE OwnResult(f, replies)

\* C6's case: exactly one sub-fetch of an enriched candidate failed
C6_Witness ==
    /\ pc = "analyze_gather"
    /\ \E i \in EnrichCalls :
          /\ FailedSubFetches(calls[i].result) = {"pulls"}
          /\ SlotOf(i).done
          /\ SlotOf(i).result # None
          /\ SlotOf(i).result[1]["contributors"] = 2
          /\ SlotOf(i).result[1]["avg_pr_merge_time"] = None

-----------------------------------------------------------------------------
(* The ranking specification: the ranking stage alone, on enriched         *)
(* repositories whose scored fields take values on both sides of every     *)
(* threshold of the scoring function.                                      *)

StarValues == {0, 50, 51, 100, 101, 10000, 20000}

ContributorValues == {0, 10, 100, 101}

DayValues == {7, 8, 30, 31, 90, 91}

\* the merge times, in days, of the merged pull requests of a repository
MergeTimeValues ==
    {<< >>, << 1 >>, << 1, 2 >>, << 3 >>, << 3, 4 >>, << 7 >>, << 7, 8 >>, << 14 >>, << 15 >>}

IssueValues == {0, 5, 10, 20}

\* what the Metrics Source holds about one repository
SourceFacts(id, stars, contributors, days, merge_times, issues) ==
    [id |-> id, stars |-> stars, contributors |-> contributors, days |-> days,
     merge_times |-> merge_times, issues |-> issues]

RawOf(facts) == RawRepo(facts.id, facts.stars, facts.issues, facts.days)

RepliesOf(facts) ==
    [AllOk EXCEPT
        !.contributors = Http([i \in 1..facts.contributors |-> [login |-> i]]),
        !.pulls = Http([i \in 1..Len(facts.merge_times) |->
                           [state |-> "closed",
                            created_at |-> Some(1 + facts.merge_times[i]),
                            merged_at |-> Some(1)]])]

EnrichedOf(facts) == AnalyzeRepository(RawOf(facts), RepliesOf(facts))[1]

\* the candidates of the scoring scenario, with the open issues left open
Scenario1(issues) == SourceFacts(1, 100, 10, 3, << >>, issues)

Scenario2(issues) == SourceFacts(2, 50, 50, 200, << >>, issues)

\* the cases of the ranking specification: the repositories of one request
RankCases ==
    {<< SourceFacts(1, stars, contributors, days, merge_times, issues) >> :
        stars \in StarValues, contributors \in ContributorValues, days \in DayValues,
        merge_times \in MergeTimeValues, issues \in IssueValues}
    \cup {<< Scenario1(i1), Scenario2(i2) >> : i1 \in {0, 5, 15, 20}, i2 \in {0, 3, 8, 10}}
    \cup {<< Scenario2(i2), Scenario1(i1) >> : i1 \in {0, 5, 15, 20}, i2 \in {0, 3, 8, 10}}

\* the state in which the ranking node is entered, the search having returned
\* the repositories of the case and every sub-fetch having been answered
RankEntered(case) ==
    LET raws == [i \in 1..Len(case) |-> RawOf(case[i])]
    IN  /\ pc = "rank_repositories"
        /\ user_query = Q_find
        /\ search_terms = << Q_find >>
        /\ language = None
        /\ requirements = << >>
        /\ repositories = raws
        /\ analyzed_repositories = [i \in 1..Len(case) |-> EnrichedOf(case[i])]
        /\ ranked_repositories = << >>
        /\ response = NoResponseYet
        /\ diagram_path = None
        /\ stored_repositories = << >>
        /\ batch_start = batch_size
        /\ batch_results = << >>
        /\ analyzed_acc = [i \in 1..Len(case) |-> EnrichedOf(case[i])]
        /\ visited = << "parse_query", "search_repositories", "analyze_repositories" >>
        /\ calls = << Call("interpreter", Q_find, FALSE,
                           << [syntax |-> "invalid", value |-> None] >>),
                      Call("search", [term |-> Q_find, qualifier |-> None], FALSE, raws) >>
                   \o [i \in 1..Len(case) |->
                          Call("enrich", << 0, i >>, FALSE, RepliesOf(case[i]))]

InitRank == \E case \in RankCases : RankEntered(case)

NextRank == RankRepositories

SpecRank == InitRank /\ [][NextRank]_vars


\* the ranking stage has run
RankDone == LastNode = "rank_repositories" /\ pc = "generate_response"

\* The five contributions as the specification words them, in tenths of a point.
ClaimedStars(e) == IF e["stars"] >= 10000 THEN 10000 ELSE e["stars"]

ClaimedContributors(e) == IF e["contributors"] * 5 >= 500 THEN 5000 ELSE e["contributors"] * 50

ClaimedRecency(e) ==
    CASE e["last_updated_days"] <= 7 -> 3000
      [] e["last_updated_days"] > 7 /\ e["last_updated_days"] <= 30 -> 2000
      [] e["last_updated_days"] > 30 /\ e["last_updated_days"] <= 90 -> 1000
      [] OTHER -> 0

\* the average merge time is at most days
AverageAtMost(avg, days) == avg[1].num <= days * avg[1].den

ClaimedMergeSpeed(e) ==
    LET avg == e["avg_pr_merge_time"]
    IN  CASE avg = None -> 0
          [] avg # None /\ AverageAtMost(avg, 1) -> 2000
          [] avg # None /\ ~ AverageAtMost(avg, 1) /\ AverageAtMost(avg, 3) -> 1500
          [] avg # None /\ ~ AverageAtMost(avg, 3) /\ AverageAtMost(avg, 7) -> 1000
          [] avg # None /\ ~ AverageAtMost(avg, 7) /\ AverageAtMost(avg, 14) -> 500
          [] OTHER -> 0

ClaimedIssueHealth(e) ==
    CASE e["stars"] > 0 /\ 10 * e["open_issues"] < e["stars"] -> 1000
      [] e["stars"] > 0 /\ 10 * e["open_issues"] >= e["stars"]
            /\ 5 * e["open_issues"] < e["stars"] -> 500
      [] OTHER -> 0

\* C7: the composite score of every ranked repository is the sum of the five
\* contributions: stars, contributors, recency, PR merge speed and issue health.
C7_ScoreIsSumOfFive ==
    RankDone =>
        \A i \in 1..Len(ranked_repositories) :
            ranked_repositories[i]["composite_score"] =
                ClaimedStars(ranked_repositories[i])
                + ClaimedContributors(ranked_repositories[i])
                + ClaimedRecency(ranked_repositories[i])
                + ClaimedMergeSpeed(ranked_repositories[i])
                + ClaimedIssueHealth(ranked_repositories[i])

\* C7's case: a repository every contribution of which is positive and below its
\* cap was scored: 10.1 + 50 + 200 + 150 + 50 points
C7_Witness ==
    /\ RankDone
    /\ \E i \in 1..Len(ranked_repositories) :
          LET e == ranked_repositories[i]
          IN  /\ e["stars"] = 101 /\ e["contributors"] = 10 /\ e["last_updated_days"] = 30
              /\ e["avg_pr_merge_time"] = Some([num |-> 3, den |-> 2])
              /\ e["open_issues"] = 20
              /\ e["composite_score"] = 4601

\* C8: score boundedness.  The composite score of every ranked repository is at
\* most 2100 points (21000 tenths).
C8_ScoreBounded ==
    RankDone =>
        \A i \in 1..Len(ranked_repositories) :
            ranked_repositories[i]["composite_score"] <= 21000

\* C8's case: a repository over every cap was scored, and scored 2100 points
C8_Witness ==
    /\ RankDone
    /\ \E i \in 1..Len(ranked_repositories) :
          /\ ranked_repositories[i]["stars"] = 20000
          /\ ranked_repositories[i]["contributors"] = 101
          /\ ranked_repositories[i]["composite_score"] = 21000

\* the entry e with one field changed
With(e, k, v) == [e EXCEPT ![k] = v]

\* C9: score monotonicity.  A repository that differs from a ranked one only in
\* having more stars does not score lower, and one that differs only in having
\* more days since its last update does not score higher.
C9_ScoreMonotone ==
    RankDone =>
        \A i \in 1..Len(ranked_repositories) :
            LET e == ranked_repositories[i]
            IN  /\ \A stars \in StarValues :
                      stars >= e["stars"] =>
                          CalculateRepositoryScore(With(e, "stars", stars)) >= e["composite_score"]
                /\ \A days \in DayValues \cup {3, 200} :
                      days >= e["last_updated_days"] =>
                          CalculateRepositoryScore(With(e, "last_updated_days", days))
                              <= e["composite_score"]

\* C9's case: a ranked repository that more stars would score strictly higher,
\* by more than the stars alone, and more days strictly lower
C9_Witness ==
    /\ RankDone
    /\ \E i \in 1..Len(ranked_repositories) :
          LET e == ranked_repositories[i]
          IN  /\ e["stars"] = 50 /\ e["open_issues"] = 10 /\ e["last_updated_days"] = 7
              /\ CalculateRepositoryScore(With(e, "stars", 51)) = e["composite_score"] + 501
              /\ CalculateRepositoryScore(With(e, "last_updated_days", 8))
                     = e["composite_score"] - 1000

\* the place of the identity id in the ranked list
RankOf(id) == CHOOSE i \in 1..Len(ranked_repositories) : ranked_repositories[i]["id"] = id

\* the ranked entry of the identity id
Ranked(id) == ranked_repositories[RankOf(id)]

\* the ranking stage has run on the two candidates of the scoring scenario
ScenarioRanked ==
    /\ RankDone
    /\ Len(ranked_repositories) = 2
    /\ Ids(ranked_repositories) = {1, 2}
    /\ Ranked(1)["stars"] = 100 /\ Ranked(1)["last_updated_days"] = 3
    /\ Ranked(1)["contributors"] = 10 /\ Ranked(1)["avg_pr_merge_time"] = None
    /\ Ranked(2)["stars"] = 50 /\ Ranked(2)["last_updated_days"] = 200
    /\ Ranked(2)["contributors"] = 50 /\ Ranked(2)["avg_pr_merge_time"] = None

\* C10, as stated: in the scoring scenario id 1 scores 360 and id 2 scores 255,
\* and the ranked order is [1, 2].
C10_ScenarioAsStated ==
    ScenarioRanked =>
        /\ Ranked(1)["composite_score"] = 3600
        /\ Ranked(2)["composite_score"] = 2550
        /\ RankOf(1) = 1 /\ RankOf(2) = 2

\* C10, amended: in the scoring scenario id 1 scores 360 and id 2 scores 255
\* plus, each, the issue health of its open issues: 100 more with fewer open
\* issues than a tenth of its stars (460 and 355 when there are none), 50 more
\* with fewer than a fifth; the ranked order is [1, 2].
C10_ScenarioWithIssueHealth ==
    ScenarioRanked =>
        /\ Ranked(1)["composite_score"] =
              3600 + (IF Ranked(1)["open_issues"] < 10 THEN 1000
                      ELSE IF Ranked(1)["open_issues"] < 20 THEN 500 ELSE 0)
        /\ Ranked(2)["composite_score"] =
              2550 + (IF Ranked(2)["open_issues"] < 5 THEN 1000
                      ELSE IF Ranked(2)["open_issues"] < 10 THEN 500 ELSE 0)
        /\ RankOf(1) = 1 /\ RankOf(2) = 2

\* C10's case: the scenario was ranked from the order [2, 1], neither candidate
\* having an open issue
C10_Witness ==
    /\ ScenarioRanked
    /\ analyzed_repositories[1]["id"] = 2
    /\ Ranked(1)["open_issues"] = 0 /\ Ranked(2)["open_issues"] = 0
    /\ Ranked(1)["composite_score"] = 4600 /\ Ranked(2)["composite_score"] = 3550

-----------------------------------------------------------------------------
(* The ranking and response specification: the ranking stage on enriched   *)
(* lists of up to four repositories, three of which score the same, then   *)
(* the response stage; and the ranking stage applied once more to the list *)
(* it returned.                                                            *)

\* three repositories of equal score (460 points), the third from other
\* fields, one that scores higher and one that scores lower
Tied1 == SourceFacts(1, 100, 10, 3, << >>, 0)

Tied2 == SourceFacts(2, 100, 10, 3, << >>, 0)

Tied3 == SourceFacts(3, 100, 30, 30, << >>, 0)

Higher == SourceFacts(4, 10000, 10, 3, << >>, 0)

Lower5 == SourceFacts(5, 50, 10, 200, << >>, 20)

RankedFacts == {Tied1, Tied2, Tied3, Higher, Lower5}

\* the lists of at most four of the repositories, each at most once
RankRespondCases ==
    UNION {{s \in [1..n -> RankedFacts] : \A i \in 1..n : \A j \in 1..n : s[i] = s[j] => i = j} :
            n \in 0..4}

\* how many times the node was entered
TimesEntered(node) == Cardinality({i \in 1..Len(visited) : visited[i] = node})

\* _rank_repositories is called again, on the list it returned: its state has
\* that list as analyzed_repositories
RankedListFedBack ==
    /\ pc = "generate_response"
    /\ TimesEntered("rank_repositories") = 1
    /\ TimesEntered("generate_response") = 0
    /\ analyzed_repositories' = ranked_repositories
    /\ pc' = "rank_repositories"
    /\ UNCHANGED << user_query, search_terms, language, requirements, repositories,
                    ranked_repositories, response, diagram_path, stored_repositories,
                    batch_start, batch_results, analyzed_acc, visited, calls >>

InitRankRespond == \E case \in RankRespondCases : RankEntered(case)

NextRankRespond ==
    \/ RankRepositories
    \/ RankedListFedBack
    \/ \E reply \in ResponderReplies : GenerateResponse(reply)

SpecRankRespond == InitRankRespond /\ [][NextRankRespond]_vars

\* the identities of a list, in its order
IdsInOrder(repos) == [i \in 1..Len(repos) |-> repos[i]["id"]]

\* the place of the identity id in the list
PlaceOf(id, repos) == CHOOSE i \in 1..Len(repos) : repos[i]["id"] = id

\* C11: after the ranking stage, the ranked list is a permutation of the
\* enriched list, every entry's composite score is greater than or equal to the
\* next entry's, and two entries of equal score are in the order they have in
\* the enriched list.
C11_RankedStableDescending ==
    RankDone =>
        LET ranked == ranked_repositories
            enriched == analyzed_repositories
        IN  /\ Len(ranked) = Len(enriched)
            /\ \A i \in 1..Len(enriched) :
                  \E j \in 1..Len(ranked) :
                      /\ ranked[j] = enriched[i]
                      /\ \A k \in 1..Len(ranked) : ranked[k] = enriched[i] => k = j
            /\ \A i \in 1..(Len(ranked) - 1) :
                  ranked[i]["composite_score"] >= ranked[i + 1]["composite_score"]
            /\ \A i \in 1..Len(ranked) : \A j \in (i + 1)..Len(ranked) :
                  ranked[i]["composite_score"] = ranked[j]["composite_score"]
                      => PlaceOf(ranked[i]["id"], enriched) < PlaceOf(ranked[j]["id"], enriched)

\* C11's case: the enriched list [5, 3, 1, 4] was ranked: 4 scores higher and
\* moved to the front, 5 lower and moved to the end, 3 and 1 score the same
\* from different fields and kept their order
C11_Witness ==
    /\ RankDone
    /\ TimesEntered("rank_repositories") = 1
    /\ IdsInOrder(analyzed_repositories) = << 5, 3, 1, 4 >>
    /\ IdsInOrder(ranked_repositories) = << 4, 3, 1, 5 >>
    /\ ranked_repositories[2]["composite_score"] = ranked_repositories[3]["composite_score"]
    /\ ranked_repositories[2]["contributors"] # ranked_repositories[3]["contributors"]

\* the ranking stage has run on the list it had returned
RankedAgain == RankDone /\ TimesEntered("rank_repositories") = 2

\* C12: idempotence of ranking.  The ranking stage applied to a list it has
\* already ranked, the scored fields unchanged, returns the list in the same
\* order, the entries of equal score included.
C12_RankingIdempotent ==
    RankedAgain =>
        /\ IdsInOrder(ranked_repositories) = IdsInOrder(analyzed_repositories)
        /\ ranked_repositories = analyzed_repositories

\* C12's case: a ranked list that was not in the order of its input, with two
\* entries of equal score, was ranked again
C12_Witness ==
    /\ RankedAgain
    /\ IdsInOrder(ranked_repositories) = << 4, 2, 1, 5 >>
    /\ IdsInOrder(repositories) = << 5, 2, 4, 1 >>
    /\ ranked_repositories[2]["composite_score"] = ranked_repositories[3]["composite_score"]

-----------------------------------------------------------------------------
(* The routing and diagram specification: parse_query, the router, the     *)
(* diagram node and the response node, on request texts with and without   *)
(* the keywords and the ordinal words, and stored lists of zero to three   *)
(* repositories.                                                           *)

\* "show me a diagram of the second one"
Q_example == << "s", "h", "o", "w", " ", "m", "e", " ", "a", " ", "d", "i",
    "a", "g", "r", "a", "m", " ", "o", "f", " ", "t", "h", "e", " ", "s",
    "e", "c", "o", "n", "d", " ", "o", "n", "e" >>

\* "Visualize the 3rd"
Q_visualize_3rd == << "V", "i", "s", "u", "a", "l", "i", "z", "e", " ", "t",
    "h", "e", " ", "3", "r", "d" >>

\* "Draw the third"
Q_draw_third == << "D", "r", "a", "w", " ", "t", "h", "e", " ", "t", "h",
    "i", "r", "d" >>

\* "draw the 2nd"
Q_draw_2nd == << "d", "r", "a", "w", " ", "t", "h", "e", " ", "2", "n", "d" >>

\* "draw 2 and 3"
Q_draw_2_and_3 == << "d", "r", "a", "w", " ", "2", " ", "a", "n", "d", " ",
    "3" >>

\* "show the third, not the second"
Q_third_not_second == << "s", "h", "o", "w", " ", "t", "h", "e", " ", "t",
    "h", "i", "r", "d", ",", " ", "n", "o", "t", " ", "t", "h", "e", " ",
    "s", "e", "c", "o", "n", "d" >>

\* "Find a drawing tool"
Q_drawing == << "F", "i", "n", "d", " ", "a", " ", "d", "r", "a", "w", "i",
    "n", "g", " ", "t", "o", "o", "l" >>

\* "Find a web3 api"
Q_web3 == << "F", "i", "n", "d", " ", "a", " ", "w", "e", "b", "3", " ", "a",
    "p", "i" >>

\* "Diagram"
Q_diagram == << "D", "i", "a", "g", "r", "a", "m" >>

DiagramQueries ==
    {Q_find, Q_show2, Q_draw, Q_example, Q_visualize_3rd, Q_draw_third, Q_draw_2nd,
     Q_draw_2_and_3, Q_third_not_second, Q_drawing, Q_web3, Q_diagram}

Repo3 == RawRepo(3, 10, 0, 40)

\* the lists earlier requests of the session returned: none, one, two or three
\* repositories
DiagramStored ==
    {<< >>, RankedFrom(<< Repo1 >>), RankedFrom(<< Repo2, Repo1 >>),
     RankedFrom(<< Repo3, Repo1, Repo2 >>)}

InitDiagram ==
    \E query \in DiagramQueries, stored \in DiagramStored : InitialState(query, stored)

NextDiagram ==
    \/ \E reply \in InterpreterReplies : ParseQuery(reply)
    \/ RouteRequestStep
    \/ \E run \in DiagramRuns : GenerateDiagram(run)
    \/ \E reply \in ResponderReplies : GenerateResponse(reply)

SpecDiagram == InitDiagram /\ [][NextDiagram]_vars

\* the keywords of a visualization intent, as the specification lists them
ClaimedKeywords ==
    {<< "d", "i", "a", "g", "r", "a", "m" >>, << "d", "r", "a", "w" >>,
     << "s", "h", "o", "w" >>, << "v", "i", "s", "u", "a", "l", "i", "z", "e" >>}

\* the lowercased text contains at least one of the keywords
ClaimedDiagramIntent(text) == \E k \in ClaimedKeywords : Contains(k, Lower(text))

\* the router has decided
Routed == visited # << >> /\ pc \notin {"route_request", "raised"}

\* the request took the diagram branch
OnDiagramBranch ==
    pc = "generate_diagram" \/ \E i \in 1..Len(visited) : visited[i] = "generate_diagram"

\* C13: routing.  Whatever the interpreter answered and whatever list is
\* stored, the router selects the diagram branch exactly when the lowercased
\* request text contains one of the keywords "diagram", "draw", "show",
\* "visualize", and the search branch otherwise.
C13_RoutingByKeyword ==
    Routed =>
        /\ OnDiagramBranch \/ pc = "search_repositories"
        /\ OnDiagramBranch <=> ClaimedDiagramIntent(user_query)
        /\ pc = "search_repositories" <=> ~ ClaimedDiagramIntent(user_query)

\* C13's case: a text with a capitalised keyword inside a longer word was
\* routed to the diagram branch although the interpreter returned search
\* terms and nothing is stored
C13_Witness ==
    /\ pc = "generate_diagram"
    /\ user_query = Q_drawing
    /\ search_terms # << >>
    /\ stored_repositories = << >>

\* the lowercased text contains one of the words
ContainsAny(words, text) == \E w \in words : Contains(w, Lower(text))

SecondWords == {<< "s", "e", "c", "o", "n", "d" >>, << "2", "n", "d" >>, << "2" >>}

ThirdWords == {<< "t", "h", "i", "r", "d" >>, << "3", "r", "d" >>, << "3" >>}

\* the index of the ordinal words of the text, the words of the second
\* taking precedence over those of the third
ClaimedIndex(text) ==
    IF ContainsAny(SecondWords, text) THEN 1
    ELSE IF ContainsAny(ThirdWords, text) THEN 2
    ELSE 0

\* the diagram node has run
DiagramNodeOver == \E i \in 1..Len(visited) : visited[i] = "generate_diagram"

\* the places of the diagram generator's invocations in the history
DiagramCalls == {i \in 1..Len(calls) : calls[i].call = "diagram"}

\* C14: on the diagram branch, when the stored ranked list is empty or the
\* computed index is greater than or equal to its length, the diagram
\* generator is not invoked, no diagram reference is set, the narrative is the
\* fixed "no repositories available" message up to the end of the request, and
\* no exception propagates.
C14_NoRepositoriesAvailable ==
    (/\ DiagramNodeOver
     /\ \/ stored_repositories = << >>
        \/ ClaimedIndex(user_query) >= Len(stored_repositories))
    => /\ DiagramCalls = {}
       /\ diagram_path = None
       /\ Returned_diagram_path = None
       /\ response = NoRepositoriesMessage
       /\ pc \in {"generate_response", "END"}

\* C14's case: the request "show me a diagram of the second one" with a stored
\* list of one repository has ended
C14_Witness ==
    /\ pc = "END"
    /\ user_query = Q_example
    /\ Len(stored_repositories) = 1
    /\ Returned_message = NoRepositoriesMessage
    /\ DiagramCalls = {}

\* the diagram node selected the index n of the stored list: it invoked the
\* generator once, for the repository at that index, or for none when the list
\* has no such index
Selected(n) ==
    IF n < Len(stored_repositories)
    THEN /\ Cardinality(DiagramCalls) = 1
         /\ \A i \in DiagramCalls : calls[i].arg = stored_repositories[n + 1]["name"]
    ELSE DiagramCalls = {}

\* C15, as stated: the selected index is 1 when the lowercased text contains
\* "second", "2nd" or "2", is 2 when it contains "third", "3rd" or "3", and is
\* 0 for every other text.
C15_IndexAsStated ==
    DiagramNodeOver =>
        /\ ContainsAny(SecondWords, user_query) => Selected(1)
        /\ ContainsAny(ThirdWords, user_query) => Selected(2)
        /\ ~ ContainsAny(SecondWords \cup ThirdWords, user_query) => Selected(0)

\* C15, amended: the selected index is 1 when the lowercased text contains
\* "second", "2nd" or "2"; is 2 when it contains "third", "3rd" or "3" and none
\* of "second", "2nd", "2"; and is 0 for every other text.
C15_IndexSecondBeforeThird ==
    DiagramNodeOver =>
        /\ ContainsAny(SecondWords, user_query) => Selected(1)
        /\ (ContainsAny(ThirdWords, user_query) /\ ~ ContainsAny(SecondWords, user_query))
              => Selected(2)
        /\ ~ ContainsAny(SecondWords \cup ThirdWords, user_query) => Selected(0)

\* C15's case: with three repositories stored, a text with words of the third
\* and of the second had the generator invoked for the second repository
C15_Witness ==
    /\ DiagramNodeOver
    /\ user_query = Q_third_not_second
    /\ Len(stored_repositories) = 3
    /\ \E i \in DiagramCalls : calls[i].arg = stored_repositories[2]["name"]

-----------------------------------------------------------------------------
(* The order of the stages, checked under Spec *)

\* the stages of a search request and of a diagram request, in order
SearchPath ==
    << "parse_query", "search_repositories", "analyze_repositories", "rank_repositories",
       "generate_response" >>

DiagramPath == << "parse_query", "generate_diagram", "generate_response" >>

\* s is the beginning of t
IsPrefix(s, t) == Len(s) <= Len(t) /\ s = SubSeq(t, 1, Len(s))

\* the stages of the graph
Stages ==
    {"parse_query", "search_repositories", "analyze_repositories", "rank_repositories",
     "generate_diagram", "generate_response"}

\* C16: the workflow is a single-pass linear DAG.  The stages entered so far
\* are the beginning of ParseQuery, SearchRepositories, AnalyzeRepositories,
\* RankRepositories, GenerateResponse or of ParseQuery, GenerateDiagram,
\* GenerateResponse (so each stage is entered at most once, ParseQuery first,
\* and no stage of the other branch); the stage about to run is the next of
\* that sequence; and Done is reached only from GenerateResponse, every stage
\* of the branch having run.
C16_SinglePassLinearDag ==
    /\ IsPrefix(visited, SearchPath) \/ IsPrefix(visited, DiagramPath)
    /\ pc \in Stages =>
          \/ IsPrefix(Append(visited, pc), SearchPath)
          \/ IsPrefix(Append(visited, pc), DiagramPath)
    /\ pc = "END" => /\ LastNode = "generate_response"
                     /\ visited \in {SearchPath, DiagramPath}

\* C16's case: a search request that found repositories has reached Done
C16_Witness ==
    /\ pc = "END"
    /\ visited = SearchPath
    /\ ranked_repositories # << >>
    /\ \E i \in 1..Len(calls) : calls[i].call = "responder"

-----------------------------------------------------------------------------
(* The batch specification: the enrichment stage with the sub-fetches of   *)
(* each candidate returning one at a time, in any order and interleaved    *)
(* with those of the other candidates of the batch, on candidate lists of  *)
(* one and of two batches, some candidates lacking a base field.           *)

\* a slot whose analyze_repository awaits its gather, with the responses its
\* sub-fetches that returned have got
Fetching(replies) == [done |-> FALSE, result |-> None, replies |-> replies]

RepliesSoFar(slot) == IF "replies" \in DOMAIN slot THEN slot.replies ELSE << >>

\* the sub-fetches of the slot that have returned
ReturnedSubFetches(slot) ==
    {f \in SubFetches : RequestsOf(f) \subseteq DOMAIN RepliesSoFar(slot)}

\* The sub-fetch f of the k-th candidate of the batch returns, its requests
\* having got the answers.  A candidate whose owner or name cannot be read
\* starts no sub-fetch.
SubFetchReturns(k, f, answers) ==
    /\ pc = "analyze_gather"
    /\ k \in 1..Len(batch_results)
    /\ ~ batch_results[k].done
    /\ HasOwnerAndName(Batch(batch_start)[k])
    /\ f \notin ReturnedSubFetches(batch_results[k])
    /\ DOMAIN answers = RequestsOf(f)
    /\ batch_results' = [batch_results EXCEPT
                            ![k] = Fetching(Merge(RepliesSoFar(batch_results[k]), answers))]
    /\ UNCHANGED << pc, user_query, search_terms, language, requirements, repositories,
                    analyzed_repositories, ranked_repositories, response, diagram_path,
                    stored_repositories, batch_start, analyzed_acc, visited, calls >>

\* The analyze_repository of the k-th candidate returns: its gather of the five
\* sub-fetches has returned, or it failed before starting them.
AnalyzeRepositoryCompletes(k) ==
    /\ pc = "analyze_gather"
    /\ k \in 1..Len(batch_results)
    /\ \/ ~ HasOwnerAndName(Batch(batch_start)[k])
       \/ ReturnedSubFetches(batch_results[k]) = SubFetches
    /\ AnalyzeRepositoryReturns(k, RepliesSoFar(batch_results[k]))

\* what the requests of the sub-fetch f for the repository can be answered:
\* the pull request and contributor endpoints answer or fail for repository 1,
\* every other request is answered
SubFetchAnswers(repo, f) ==
    CASE f = "contributors" ->
            {[contributors |-> r] :
                r \in IF repo["id"] = 1 THEN {ContributorsOk, HttpError} ELSE {ContributorsOk}}
      [] f = "pulls" ->
            {[pulls |-> r] : r \in IF repo["id"] = 1 THEN {PullsOk, HttpError} ELSE {PullsOk}}
      [] f = "issues" -> {[issues_open |-> IssuesOpenOk, issues_closed |-> IssuesClosedOk]}
      [] f = "releases" -> {[releases |-> ReleasesOk]}
      [] f = "activity" -> {[activity |-> ActivityOk]}

\* the repository without one of the keys the search returns
Without(repo, key) == [k \in (DOMAIN repo) \ {key} |-> repo[k]]

NoOwner(id) == Without(RawRepo(id, 10, 0, 40), "owner")

NoName(id) == Without(RawRepo(id, 10, 0, 40), "name")

NoUpdate(id) == Without(RawRepo(id, 10, 0, 40), "updated_at")

NoSize(id) == Without(RawRepo(id, 10, 0, 40), "size")

\* the candidate lists of the batch specification; the last has two batches
BatchCases ==
    {<< >>,
     << Repo1, NoOwner(3), Repo2 >>,
     << NoUpdate(3), Repo1 >>,
     << Repo1, NoSize(3) >>,
     << Repo1, NoOwner(3), NoName(4), NoOwner(5), NoName(6), Repo2 >>}

InitBatch == \E candidates \in BatchCases : EnrichEntered(candidates)

NextBatch ==
    \/ AnalyzeRepositoriesEnter
    \/ \E k \in 1..batch_size, f \in SubFetches :
          /\ pc = "analyze_gather"
          /\ k \in 1..Len(batch_results)
          /\ \E answers \in SubFetchAnswers(Batch(batch_start)[k], f) :
                SubFetchReturns(k, f, answers)
    \/ \E k \in 1..batch_size : AnalyzeRepositoryCompletes(k)
    \/ GatherReturns
    \/ SleepReturns

SpecBatch == InitBatch /\ [][NextBatch]_vars

\* the enrichment stage has returned
EnrichDone == pc = "rank_repositories" /\ LastNode = "analyze_repositories"

\* the place in the history of the enrichment call of the i-th candidate
EnrichCallOf(i) ==
    {j \in EnrichCalls :
        calls[j].arg = << ((i - 1) \div batch_size) * batch_size, ((i - 1) % batch_size) + 1 >>}

\* the i-th candidate was dropped: its analyze_repository returned nothing
Dropped(i) == \E j \in EnrichCallOf(i) : calls[j].failed

\* the candidates that were not dropped, in the order of the candidate list
RECURSIVE NotDroppedFrom(_)
NotDroppedFrom(i) ==
    IF i > Len(repositories) THEN << >>
    ELSE (IF Dropped(i) THEN << >> ELSE << repositories[i]["id"] >>) \o NotDroppedFrom(i + 1)

\* C17: whatever the order in which the sub-fetches and the candidates of a
\* batch complete, the enriched list is the candidate list's order restricted
\* to the candidates that were not dropped.
C17_EnrichedInCandidateOrder ==
    EnrichDone => IdsInOrder(analyzed_repositories) = NotDroppedFrom(1)

\* C17's case: of three candidates of one batch the third resolved first, the
\* dropped second next and the first last; the enriched list is the first then
\* the third
C17_Witness ==
    /\ EnrichDone
    /\ Len(repositories) = 3
    /\ \E a \in EnrichCallOf(3), b \in EnrichCallOf(2), c \in EnrichCallOf(1) :
          a < b /\ b < c /\ calls[b].failed
    /\ IdsInOrder(analyzed_repositories) = << repositories[1]["id"], repositories[3]["id"] >>

\* the requests of the five sub-fetches
AllRequests == UNION {RequestsOf(f) : f \in SubFetches}

\* every candidate of the batch in progress has resolved, to an enriched entry
\* or to a drop, and every sub-fetch it started has resolved
BatchResolved ==
    \A k \in 1..Len(Batch(batch_start)) :
        /\ k \in 1..Len(batch_results)
        /\ batch_results[k].done
        /\ \E j \in EnrichCalls :
              /\ calls[j].arg = << batch_start, k >>
              /\ HasOwnerAndName(Batch(batch_start)[k]) => DOMAIN calls[j].result = AllRequests

\* C18: batch barrier and pacing.  The pause after a batch starts only when
\* every candidate of the batch has resolved with all its sub-fetches, and the
\* next batch is launched only by the completion of that pause, the batch
\* still wholly resolved: no step launches it from any other point.
C18_BatchBarrier ==
    [][ /\ (pc # "analyze_sleep" /\ pc' = "analyze_sleep") => BatchResolved
        /\ (batch_start' # batch_start) =>
              /\ pc = "analyze_sleep"
              /\ BatchResolved
              /\ batch_start' = batch_start + batch_size
        /\ (pc # "analyze_repositories" /\ \E k \in 1..Len(batch_results') :
                                             ~ batch_results'[k].done) =>
              \/ batch_start' = batch_start
              \/ pc = "analyze_sleep"
      ]_vars

\* C18's case: a sub-fetch of the second batch has returned, the five
\* candidates of the first batch having resolved, one of them enriched
C18_Witness ==
    /\ pc = "analyze_gather"
    /\ batch_start = batch_size
    /\ Len(repositories) > batch_size
    /\ ReturnedSubFetches(batch_results[1]) # {}
    /\ \A k \in 1..batch_size : \E j \in EnrichCalls : calls[j].arg = << 0, k >>
    /\ Len(analyzed_acc) = 1

\* every base field analyze_repository needs can be read from the candidate
BaseFieldsReadable(repo) ==
    /\ "owner" \in DOMAIN repo /\ "login" \in DOMAIN repo["owner"]
    /\ "name" \in DOMAIN repo
    /\ "updated_at" \in DOMAIN repo /\ repo["updated_at"] # None
    /\ {"id", "full_name", "html_url", "stargazers_count", "forks_count", "watchers_count",
        "open_issues_count", "size", "default_branch"} \subseteq DOMAIN repo

\* C19: the enriched list has no more entries than the candidate list, and it
\* omits exactly the candidates whose base-field extraction fails: each of
\* those has no entry, and every other candidate has its entry, whatever
\* became of the candidates of its batch and of its own sub-fetches.
C19_DropsExactlyBaseFieldFailures ==
    EnrichDone =>
        /\ Len(analyzed_repositories) <= Len(repositories)
        /\ IdsInOrder(analyzed_repositories)
              = IdsInOrder(SelectSeq(repositories, BaseFieldsReadable))
        /\ \A i \in 1..Len(repositories) : Dropped(i) <=> ~ BaseFieldsReadable(repositories[i])

\* C19's case: of two candidates of a batch the one without its last update
\* was dropped after its sub-fetches had returned, and the other was enriched
\* although its pull request sub-fetch failed
C19_Witness ==
    /\ EnrichDone
    /\ Len(repositories) = 2
    /\ "updated_at" \notin DOMAIN repositories[1]
    /\ \E j \in EnrichCallOf(1) : calls[j].failed /\ DOMAIN calls[j].result = AllRequests
    /\ Len(analyzed_repositories) = 1
    /\ analyzed_repositories[1]["id"] = repositories[2]["id"]
    /\ analyzed_repositories[1]["avg_pr_merge_time"] = None
    /\ analyzed_repositories[1]["open_prs"] = 0

-----------------------------------------------------------------------------
(* The response stage of a search request, checked under SpecRankRespond *)

\* the places of the responder's consultations in the history
ResponderCalls == {i \in 1..Len(calls) : calls[i].call = "responder"}

\* the response stage has run
ResponseStageOver == LastNode = "generate_response"

\* C20: on the search branch, when the ranked list is empty the final
\* narrative is the fixed fallback message and the responder is not consulted;
\* when it is not empty the responder is consulted exactly once, with the
\* first three ranked repositories, or all of them if they are fewer.  The
\* responder is not consulted before the response stage.
C20_ResponderOnlyForRanked ==
    ~ ClaimedDiagramIntent(user_query) =>
        /\ ~ ResponseStageOver => ResponderCalls = {}
        /\ (ResponseStageOver /\ ranked_repositories = << >>) =>
              /\ pc = "END"
              /\ Returned_message = FallbackMessage
              /\ ResponderCalls = {}
        /\ (ResponseStageOver /\ ranked_repositories # << >>) =>
              /\ Cardinality(ResponderCalls) = 1
              /\ \A i \in ResponderCalls :
                    /\ Len(calls[i].arg) =
                          (IF Len(ranked_repositories) > 3 THEN 3 ELSE Len(ranked_repositories))
                    /\ \A j \in 1..Len(calls[i].arg) : calls[i].arg[j] = ranked_repositories[j]

\* C20's case: four repositories were ranked and the responder was consulted
\* with the first three
C20_Witness ==
    /\ pc = "END"
    /\ ResponseStageOver
    /\ Len(ranked_repositories) = 4
    /\ \E i \in ResponderCalls :
          /\ Len(calls[i].arg) = 3
          /\ calls[i].arg[3] = ranked_repositories[3]
          /\ ~ calls[i].failed
    /\ Returned_message = calls[Len(calls)].result[1]

-----------------------------------------------------------------------------
(* The caller's list and the two keyword scans, checked under Spec.  The    *)
(* list find_repositories is given is the object its initial state holds    *)
(* as ranked_repositories: a node that changed that object in place would   *)
(* change stored_repositories with it, a node that assigns the key leaves   *)
(* it alone.                                                                *)

\* C21: a request never mutates the caller's previously ranked list: no step
\* of a request, on either branch, changes the list passed as
\* stored_repositories or an entry of it, and a diagram request that has
\* ended returns that list, the same entries in the same order.
C21_StoredListNeverMutated ==
    /\ [][stored_repositories' = stored_repositories]_vars
    /\ []((pc = "END" /\ OnDiagramBranch) => Returned_repositories = stored_repositories)

\* C21's case: a search request given a stored list of two repositories has
\* ended and returned another list
C21_Witness ==
    /\ pc = "END"
    /\ visited = SearchPath
    /\ Len(stored_repositories) = 2
    /\ Returned_repositories # << >>
    /\ Returned_repositories # stored_repositories


\* the request took the search branch
OnSearchBranch == \E i \in 1..Len(visited) : visited[i] = "search_repositories"

\* the repositories of the list
Entries(repos) == {repos[i] : i \in 1..Len(repos)}

\* C26: whatever previously ranked list the caller supplies, the ranked list
\* returned by a completed search request contains only repositories enriched
\* from this request's own candidates, and is empty when this request enriched
\* none.
C26_NoStaleResults ==
    (pc = "END" /\ OnSearchBranch) =>
        /\ Entries(Returned_repositories) \subseteq Entries(analyzed_repositories)
        /\ Ids(Returned_repositories) \subseteq Ids(repositories)
        /\ analyzed_repositories = << >> => Returned_repositories = << >>

\* C26's case: a search request given a stored list has ended having enriched
\* nothing
C26_Witness ==
    /\ pc = "END"
    /\ visited = SearchPath
    /\ stored_repositories # << >>
    /\ analyzed_repositories = << >>
    /\ Returned_repositories = << >>

\* C28: the response stage's own keyword scan agrees with the route taken.  On
\* a diagram request the response stage does not consult the responder and
\* leaves the narrative of the diagram stage as it is; on a search request the
\* response stage does not take the diagram shortcut: it sets the fallback
\* message when nothing is ranked and consults the responder otherwise.
C28_ResponseScanAgreesWithRoute ==
    /\ [](OnDiagramBranch => ResponderCalls = {})
    /\ [][pc = "generate_response" =>
            IF OnDiagramBranch
            THEN /\ response' = response
                 /\ calls' = calls
                 /\ pc' = "END"
            ELSE \/ /\ ranked_repositories = << >>
                    /\ response' = FallbackMessage
                    /\ calls' = calls
                 \/ /\ ranked_repositories # << >>
                    /\ Len(calls') = Len(calls) + 1
                    /\ calls'[Len(calls')].call = "responder"]_vars

\* C28's case: a request that holds only the keyword "show" has ended on the
\* diagram branch with a stored list, with the narrative of the diagram stage
C28_Witness ==
    /\ pc = "END"
    /\ visited = DiagramPath
    /\ user_query = Q_show2
    /\ stored_repositories # << >>
    /\ DiagramCalls # {}
    /\ response.text # GenericDiagramMessage.text

-----------------------------------------------------------------------------
(* The limit and the order of the candidate set, checked under SpecSearch. *)

\* C22: for any number of search terms and any search results, the candidate
\* set handed to the enricher has at most 30 entries.
C22_AtMostThirtyCandidates ==
    SearchDone => Len(repositories) <= 30

\* C22's case: the searches returned more than 30 distinct repositories and
\* the candidate set holds 30
C22_Witness ==
    /\ SearchDone
    /\ Cardinality(Ids(Found)) > 30
    /\ Len(repositories) = 30

\* the identities of repos in the order in which they are first seen
RECURSIVE FirstSeen(_, _)
FirstSeen(repos, seen) ==
    IF repos = << >> THEN seen
    ELSE IF \E i \in 1..Len(seen) : seen[i] = Head(repos)["id"]
         THEN FirstSeen(Tail(repos), seen)
         ELSE FirstSeen(Tail(repos), Append(seen, Head(repos)["id"]))

\* C29: when the merged search results hold more than 30 distinct identities,
\* the candidate set is the first 30 distinct identities in the order of their
\* first occurrence across the terms' results, the entry of each being its
\* last occurrence; an identity first seen after 30 others is not in the
\* candidate set.
C29_FirstThirtyByFirstOccurrence ==
    (SearchDone /\ Cardinality(Ids(Found)) > 30) =>
        /\ IdsInOrder(repositories) = SubSeq(FirstSeen(Found, << >>), 1, 30)
        /\ \A i \in 1..Len(repositories) :
              repositories[i] = LastOccurrence(Found, repositories[i]["id"])
        /\ \A k \in 31..Len(FirstSeen(Found, << >>)) :
              FirstSeen(Found, << >>)[k] \notin Ids(repositories)

\* C29's case: more than 30 distinct identities, one of the first 30 returned
\* again later with another entry, after identities that were new
C29_Witness ==
    /\ SearchDone
    /\ Cardinality(Ids(Found)) > 30
    /\ \E i, j, k \in 1..Len(Found) :
          /\ i < k /\ k < j
          /\ Found[i]["id"] = Found[j]["id"] /\ Found[i] # Found[j]
          /\ Found[k]["id"] \notin {Found[n]["id"] : n \in 1..(k - 1)}
          /\ Found[j] \in Entries(repositories)

-----------------------------------------------------------------------------
(* The outcome of the diagram generator, checked under SpecDiagram.        *)

\* C25: diagram generation never raises.  Whether the LLM call fails, answers
\* nothing, or the rendering fails, generate_diagram returns a diagram path or
\* the absent value and the request goes on to the response stage; the diagram
\* stage sets the narrative "Generated class diagram for <name>" and the
\* diagram reference when a path was returned, and the narrative "Failed to
\* generate diagram for <name>" with no diagram reference otherwise.
C25_DiagramGenerationNeverRaises ==
    \A i \in DiagramCalls :
        /\ pc \in {"generate_response", "END"}
        /\ calls[i].result \in {None, Some("diagram.png")}
        /\ IF calls[i].result # None
           THEN /\ response = [text |-> "Generated class diagram for ",
                               arg |-> Some(calls[i].arg)]
                /\ diagram_path = calls[i].result
                /\ Returned_diagram_path # None
           ELSE /\ response = [text |-> "Failed to generate diagram for ",
                               arg |-> Some(calls[i].arg)]
                /\ diagram_path = None

\* C25's case: the generator was invoked for the second stored repository,
\* returned the absent value, and the request has ended
C25_Witness ==
    /\ pc = "END"
    /\ Len(stored_repositories) >= 2
    /\ \E i \in DiagramCalls :
          /\ calls[i].result = None
          /\ calls[i].arg = stored_repositories[2]["name"]
    /\ response.text = "Failed to generate diagram for "
    /\ Returned_diagram_path = None

-----------------------------------------------------------------------------
(* The fan-out specification: the enrichment stage on seven candidates, two *)
(* batches.  The sub-fetches of the first candidate of a batch return one   *)
(* at a time; those of the others return together.                          *)

\* the candidate lists of the fan-out specification
FanOutCases ==
    {[i \in 1..7 |-> RawRepo(i, 10, 0, 40)],
     << Repo1, NoOwner(3), Repo2 >>}

InitFanOut == \E candidates \in FanOutCases : EnrichEntered(candidates)

NextFanOut ==
    \/ AnalyzeRepositoriesEnter
    \/ \E f \in SubFetches :
          /\ pc = "analyze_gather"
          /\ \E answers \in SubFetchAnswers(Batch(batch_start)[1], f) :
                SubFetchReturns(1, f, answers)
    \/ AnalyzeRepositoryCompletes(1)
    \/ \E k \in 2..batch_size : AnalyzeRepositoryReturns(k, AllOk)
    \/ GatherReturns
    \/ SleepReturns

SpecFanOut == InitFanOut /\ [][NextFanOut]_vars

\* the candidates whose analyze_repository has not returned
BeingEnriched == {k \in 1..Len(batch_results) : ~ batch_results[k].done}

\* the sub-fetches of the k-th candidate of the batch that have not returned
OutstandingOf(k) ==
    IF batch_results[k].done \/ ~ HasOwnerAndName(Batch(batch_start)[k]) THEN 0
    ELSE Cardinality(SubFetches \ ReturnedSubFetches(batch_results[k]))

RECURSIVE OutstandingUpTo(_)
OutstandingUpTo(k) == IF k = 0 THEN 0 ELSE OutstandingOf(k) + OutstandingUpTo(k - 1)

\* the sub-fetches outstanding against the Metrics Source
OutstandingSubFetches == OutstandingUpTo(Len(batch_results))

\* C23: bounded fan-out.  At every moment of the enrichment stage at most 5
\* candidates are being enriched, each with at most five sub-fetches, so at
\* most 25 sub-fetches are outstanding.
C23_BoundedFanOut ==
    /\ Cardinality(BeingEnriched) <= 5
    /\ \A k \in 1..Len(batch_results) : OutstandingOf(k) <= 5
    /\ OutstandingSubFetches <= 25

\* C23's case: more than five candidates, five of them are being enriched with
\* all their sub-fetches outstanding
C23_Witness ==
    /\ Len(repositories) > 5
    /\ Cardinality(BeingEnriched) = 5
    /\ OutstandingSubFetches = 25

-----------------------------------------------------------------------------
(* The retry specification: the enrichment of one candidate, the requests  *)
(* of get_commit_activity answered one at a time and entered in the        *)
(* history of calls; the other sub-fetches are answered.                   *)

\* a request that got no response
NoAnswer == [status |-> 0, json |-> << >>]

\* what the commit-activity endpoint can answer to one request
ActivityResponses == {ActivityOk[1], Computing, EmptyRepository, HttpError, NoAnswer}

\* the responses get_commit_activity has received so far
ActivityResponsesSoFar ==
    LET IsActivity(c) == c.call = "commit_activity"
        mine == SelectSeq(calls, IsActivity)
    IN  [i \in 1..Len(mine) |-> mine[i].result]

\* A request of the get_commit_activity of the k-th candidate is answered by
\* resp.  After a first answer that is retried the call sleeps and its second
\* request is outstanding; after any other answer the sub-fetch returns.
CommitActivityRequestAnswered(k, resp) ==
    /\ pc = "analyze_gather"
    /\ k \in 1..Len(batch_results)
    /\ ~ batch_results[k].done
    /\ HasOwnerAndName(Batch(batch_start)[k])
    /\ "activity" \notin ReturnedSubFetches(batch_results[k])
    /\ calls' = Append(calls, Call("commit_activity", << batch_start, k >>,
                                   FailsStatus(resp), resp))
    /\ IF ActivityResponsesSoFar = << >> /\ RetriesAfter(resp)
       THEN UNCHANGED batch_results
       ELSE batch_results' =
                [batch_results EXCEPT
                    ![k] = Fetching(Merge(RepliesSoFar(batch_results[k]),
                                          [activity |-> Append(ActivityResponsesSoFar, resp)]))]
    /\ UNCHANGED << pc, user_query, search_terms, language, requirements, repositories,
                    analyzed_repositories, ranked_repositories, response, diagram_path,
                    stored_repositories, batch_start, analyzed_acc, visited >>

InitRetry == EnrichEntered(<< Repo2 >>)

NextRetry ==
    \/ AnalyzeRepositoriesEnter
    \/ \E resp \in ActivityResponses : CommitActivityRequestAnswered(1, resp)
    \/ \E f \in SubFetches \ {"activity"} :
          /\ pc = "analyze_gather"
          /\ \E answers \in SubFetchAnswers(Batch(batch_start)[1], f) :
                SubFetchReturns(1, f, answers)
    \/ AnalyzeRepositoryCompletes(1)
    \/ GatherReturns
    \/ SleepReturns

SpecRetry == InitRetry /\ [][NextRetry]_vars

\* the get_commit_activity call has returned or raised
ActivityCallOver == pc # "analyze_repositories" /\
    (pc # "analyze_gather" \/ "activity" \in ReturnedSubFetches(batch_results[1]))

\* C24: commit-activity retry.  A call issues at most two requests; it issues
\* a second request only after a "not yet computed" (202) answer to the first,
\* and once the call is over a first 202 answer has been followed by exactly
\* one more request; a second 202 answer is neither retried nor raised: the
\* candidate is enriched with the commit-activity group of an empty activity.
C24_CommitActivityRetry ==
    LET rs == ActivityResponsesSoFar
    IN  /\ Len(rs) <= 2
        /\ Len(rs) = 2 => rs[1].status = 202
        /\ ActivityCallOver =>
              /\ Len(rs) >= 1
              /\ rs[1].status = 202 => Len(rs) = 2
              /\ ApiGetCommitActivity(rs).requests = Len(rs)
        /\ (rs = << Computing, Computing >> /\ EnrichDone) =>
              /\ Len(analyzed_repositories) = 1
              /\ analyzed_repositories[1]["commit_activity"] = "low"
              /\ analyzed_repositories[1]["commits_last_month"] = 0

\* C24's case: both requests were answered "not yet computed" and the
\* enrichment stage has ended
C24_Witness ==
    /\ ActivityResponsesSoFar = << Computing, Computing >>
    /\ EnrichDone

-----------------------------------------------------------------------------
(* The session specification (app.py): the turns of one session.  Each     *)
(* prompt runs find_repositories with the session's stored list; the list  *)
(* a turn returns is stored when it is not empty.  The history keeps one    *)
(* entry per finished turn: the path it took, whether it raised, and the    *)
(* list it returned.                                                        *)

\* the most turns of a session
MaxTurns == 3

\* the finished turns of the session
Turns ==
    LET IsTurn(c) == c.call = "turn"
    IN  SelectSeq(calls, IsTurn)

SessionQueries == {Q_find, Q_draw}

SessionInterpreterReplies ==
    {[failed |-> TRUE, content |-> [syntax |-> "invalid", value |-> None]],
     [failed |-> FALSE, content |-> [syntax |-> "invalid", value |-> None]]}

\* what a search call of a turn is answered: an error, no repository, one or two
SessionSearchReplies == SmallSearchReplies \cup {Http([items |-> << >>])}

\* the session state before the first prompt
InitSession ==
    /\ pc = "idle"
    /\ user_query = << >>
    /\ search_terms = << >>
    /\ language = None
    /\ requirements = << >>
    /\ repositories = << >>
    /\ analyzed_repositories = << >>
    /\ ranked_repositories = << >>
    /\ response = NoResponseYet
    /\ diagram_path = None
    /\ stored_repositories = << >>
    /\ batch_start = 0
    /\ batch_results = << >>
    /\ analyzed_acc = << >>
    /\ visited = << >>
    /\ calls = << >>

\* The user enters a prompt: find_repositories is called with the prompt and
\* the session's stored list.
Prompt(query) ==
    /\ pc = "idle"
    /\ Len(Turns) < MaxTurns
    /\ pc' = "parse_query"
    /\ user_query' = query
    /\ search_terms' = << >>
    /\ language' = None
    /\ requirements' = << >>
    /\ repositories' = << >>
    /\ analyzed_repositories' = << >>
    /\ ranked_repositories' = stored_repositories
    /\ response' = NoResponseYet
    /\ diagram_path' = None
    /\ batch_start' = 0
    /\ batch_results' = << >>
    /\ analyzed_acc' = << >>
    /\ visited' = << >>
    /\ UNCHANGED << stored_repositories, calls >>

\* the state of the request is dropped when the turn is over
TurnOver ==
    /\ pc' = "idle"
    /\ search_terms' = << >>
    /\ language' = None
    /\ requirements' = << >>
    /\ repositories' = << >>
    /\ analyzed_repositories' = << >>
    /\ ranked_repositories' = << >>
    /\ response' = NoResponseYet
    /\ diagram_path' = None
    /\ batch_start' = 0
    /\ batch_results' = << >>
    /\ analyzed_acc' = << >>
    /\ visited' = << >>
    /\ UNCHANGED user_query

\* StoreRepositories changed to store whatever the request returned
StoreRepositoriesAlways ==
    /\ pc = "END"
    /\ stored_repositories' = Returned_repositories
    /\ calls' = Append(Turns, Call("turn", visited, FALSE, Returned_repositories))
    /\ TurnOver

\* find_repositories returned: the list it returned is stored if it is not
\* empty.
StoreRepositories ==
    /\ pc = "END"
    /\ stored_repositories' = IF Returned_repositories # << >>
                              THEN Returned_repositories
                              ELSE stored_repositories
    /\ calls' = Append(Turns, Call("turn", visited, FALSE, Returned_repositories))
    /\ TurnOver

\* find_repositories raised: the error is shown, nothing is stored.
TurnRaised ==
    /\ pc = "raised"
    /\ calls' = Append(Turns, Call("turn", visited, TRUE, << >>))
    /\ UNCHANGED stored_repositories
    /\ TurnOver

NextSession ==
    \/ \E query \in SessionQueries : Prompt(query)
    \/ \E reply \in SessionInterpreterReplies : ParseQuery(reply)
    \/ RouteRequestStep
    \/ \E replies \in SearchReplySeqs(Len(search_terms), SessionSearchReplies) :
          SearchRepositories(replies)
    \/ AnalyzeRepositoriesEnter
    \/ \E k \in 1..batch_size : AnalyzeRepositoryReturns(k, AllOk)
    \/ GatherReturns
    \/ SleepReturns
    \/ RankRepositories
    \/ \E run \in DiagramRuns : GenerateDiagram(run)
    \/ \E reply \in ResponderReplies : GenerateResponse(reply)
    \/ StoreRepositories
    \/ TurnRaised

SpecSession == InitSession /\ [][NextSession]_vars

\* the turn took the search branch, did not raise and returned a repository
ReturnedFromSearch(turn) ==
    /\ ~ turn.failed
    /\ turn.result # << >>
    /\ \E i \in 1..Len(turn.arg) : turn.arg[i] = "search_repositories"

\* the list returned by the most recent search turn that returned at least one
\* repository, or the empty list if there was none
RECURSIVE LastSearchResult(_)
LastSearchResult(turns) ==
    IF turns = << >> THEN << >>
    ELSE IF ReturnedFromSearch(turns[Len(turns)]) THEN turns[Len(turns)].result
    ELSE LastSearchResult(SubSeq(turns, 1, Len(turns) - 1))

\* C27: across the turns of a session the stored ranked list changes only
\* when a request returns a non-empty list, and then becomes that list; a
\* search turn that returns no repositories, a turn that raises and a diagram
\* turn leave it as it was.  So the stored list is always, and a diagram
\* request always sees, the ranked list of the most recent search turn that
\* returned at least one repository, or the empty list if there was none.
C27_SessionStore ==
    /\ [][stored_repositories' # stored_repositories =>
            /\ pc = "END"
            /\ OnSearchBranch
            /\ Returned_repositories # << >>
            /\ stored_repositories' = Returned_repositories]_vars
    /\ [][(pc \in {"END", "raised"} /\ pc' = "idle"
           /\ (pc = "raised" \/ OnDiagramBranch \/ Returned_repositories = << >>))
            => stored_repositories' = stored_repositories]_vars
    /\ [](stored_repositories = LastSearchResult(Turns))
    /\ []((pc # "idle" /\ OnDiagramBranch)
            => ranked_repositories = LastSearchResult(Turns))

\* C27's case: a search turn returned repositories, the next search turn
\* returned none, and the diagram stage of the third turn has run on the list
\* of the first
C27_Witness ==
    /\ Len(Turns) = 2
    /\ ReturnedFromSearch(Turns[1])
    /\ ~ Turns[2].failed
    /\ Turns[2].arg = SearchPath
    /\ Turns[2].result = << >>
    /\ pc = "generate_response"
    /\ DiagramCalls # {}
    /\ ranked_repositories = Turns[1].result

=============================================================================
